---- MODULE Spec2Model ----
(***************************************************************************)
(* Verification model of the DemeterEye / Chipnik Monitor core:            *)
(*   - the concurrent scene processor (worker pool + sequential fallback)  *)
(*     of chipnik_monitor.py,                                              *)
(*   - the scene catalog client with its three cache layers                *)
(*     (st.cache_data memo, on-disk TTL cache, in-memory LRU cache),       *)
(*   - the cache key derivation.                                           *)
(* Each part has its own specification over a shared variable tuple; the   *)
(* variables of the other parts stay unchanged.                            *)
(***************************************************************************)
EXTENDS Integers, Sequences, FiniteSets, TLC

VARIABLES
    \* ---- concurrent scene processor (chipnik_monitor.py 1220-1293)
    scenes,      \* row_tuples: sequence of scene records
    enableEvi,   \* ENABLE_EVI
    workerCap,   \* worker_cap
    pc,          \* position of the main thread in the processing block
    fut,         \* state of every submitted future
    yielded,     \* futures already handed out by as_completed
    results,     \* the results list
    completed,   \* the completed counter of the parallel loop
    seqIdx,      \* idx of the sequential fallback loop (1-based)
    \* ---- in-memory scene cache (chipnik_monitor.py 215-216, 665-677)
    memOrder,    \* _STAC_RESULTS_CACHE: its keys, oldest first
    memVal,      \* _STAC_RESULTS_CACHE: key -> stored records
    recency,     \* history: the cached keys by their last lookup hit or insertion
    memOp,       \* history: what the last cache operation did
    \* ---- scene catalog client (chipnik_monitor.py 210-304, 647-817)
    clock,       \* time.time(), in seconds
    stMemo,      \* the memo of @st.cache_data(ttl=...) around search_hls_data
    disk,        \* STAC_CACHE_DIR: cache file -> its records and mtime
    last,        \* history: the last search_hls_data call and its outcome
    tieUp,       \* for a coordinate that is a decimal tie at the 7th place:
                 \* whether the nearest double lies above the tie
    \* ---- cache key derivation applied to a pair of requests
    reqA, reqB,  \* two search_hls_data argument lists
    keyOut,      \* the keys derived for them
    \* ---- one catalog query of _fetch_stac_records (chipnik_monitor.py 680-788)
    fReq,        \* its arguments
    fPc,         \* "start", "query" (the loop over collections), "done"
    fStage,      \* number of collections already queried
    fServed,     \* history: the items the last catalog.search returned
    fRecords,    \* the records list
    \* ---- normalize_bbox applied to an AOI (chipnik_monitor.py 324-341)
    bIn,         \* the bbox argument
    bPc,         \* "given", "normalized", "renormalized"
    bOut,        \* result of normalize_bbox(bIn)
    bTwice,      \* result of normalize_bbox on that result
    \* ---- index computation and its cache (chipnik_monitor.py 194-208, 857-1053)
    iWorld,      \* the rasters behind the red, blue and NIR URLs of a scene
    iCache,      \* CACHE_ROOT/<index>/<key>.npz of the scene, per index type
    iLast,       \* history: the last calculate_index_from_urls call
    \* ---- concurrent report jobs searching scenes (api.py 675-693, 896-912)
    jPc,         \* per job: its position inside _fetch_stac_records
    jKey,        \* per job: the cache key of its search
    jOut,        \* per job: what its search_hls_data call returned
    \* ---- anomaly detector (anomalies.py 377-412)
    dObs,        \* ndvi_df: day -> NDVI in thousandths, or Missing
    dStamp,      \* time of day the rows of ndvi_df are stamped with
    dWeather,    \* weather_df: "absent", or its one column and how it runs
    dStd,        \* how the rolling standard deviation runs over the days
    dTie,        \* whether a difference of exactly 0.1 computes as more
    dPc,         \* "input", "detected"
    dFindings,   \* the anomalies list detect_anomalies returns
    dDaily,      \* the days of charts["ndvi_daily"] that hold a value
    \* ---- report operations (api.py 594-631, 675-693, 896-912)
    opTable,     \* _OPERATIONS: operation id -> its state
    opDocs,      \* the reports collection: operation id -> persisted status
    opPc,        \* per operation: how far create_report and its job have come
    \* ---- forecast of a report (api.py 332-469, 794-866)
    mlIn,        \* what the model, the features and the prediction will do
    mlPc,        \* "input", "predicted", "reported"
    mlOut,       \* outcome of _predict_ndvi_with_ml
    mlForecast   \* the forecast dict of the report

procVars == <<scenes, enableEvi, workerCap, pc, fut, yielded, results, completed, seqIdx>>

memVars == <<memOrder, memVal, recency, memOp>>

sceneVars == <<clock, stMemo, disk, last>>

keyVars == <<tieUp, reqA, reqB, keyOut>>

fetchVars == <<fReq, fPc, fStage, fServed, fRecords>>

\* The parts below the scene catalog client.
bboxVars == <<bIn, bPc, bOut, bTwice>>

indexVars == <<iWorld, iCache, iLast>>

jobVars == <<jPc, jKey, jOut>>

detectVars == <<dObs, dStamp, dWeather, dStd, dTie, dPc, dFindings, dDaily>>

apiVars == <<opTable, opDocs, opPc, mlIn, mlPc, mlOut, mlForecast>>

extVars == <<fetchVars, bboxVars, indexVars, jobVars, detectVars, apiVars>>

vars == <<procVars, memVars, sceneVars, keyVars, extVars>>

\* What the processing block never touches.
nonProcVars == <<memVars, sceneVars, keyVars, extVars>>

\* What the in-memory cache operations never touch.
nonMemVars == <<procVars, sceneVars, keyVars, extVars>>

(***************************************************************************)
(* Bounds                                                                  *)
(***************************************************************************)
MaxScenes == 3

(***************************************************************************)
(* Concurrent scene processor                                              *)
(***************************************************************************)

\* Outcomes of one calculate_index_from_urls call, as compute_index_for_row
\* sees them: a mean, (None, None, None), or an exception that escapes the
\* call (get_index_cache_path's mkdir, cache_path.exists/unlink lie outside
\* its try blocks).
Mean(m) == [tag |-> "mean", mean |-> m]
NoneResult == [tag |-> "none", mean |-> 0]
Raises == [tag |-> "raise", mean |-> 0]

\* The scenes a batch may hold: band URLs present or not, and the outcome of
\* the NDVI and of the EVI computation for the scene.
SceneKinds ==
    { [urls |-> TRUE,  ndvi |-> Mean(6),    evi |-> Mean(4)],
      [urls |-> TRUE,  ndvi |-> Mean(6),    evi |-> NoneResult],
      [urls |-> TRUE,  ndvi |-> NoneResult, evi |-> NoneResult],
      [urls |-> FALSE, ndvi |-> NoneResult, evi |-> NoneResult],
      [urls |-> TRUE,  ndvi |-> Raises,     evi |-> NoneResult] }

\* index_types = [IndexType.NDVI] (+ IndexType.EVI if ENABLE_EVI)
IndexTypes(evi) == IF evi THEN <<"NDVI", "EVI">> ELSE <<"NDVI">>

calculate_index_from_urls(scene, t) == IF t = "NDVI" THEN scene.ndvi ELSE scene.evi

MeanKey(t) == IF t = "NDVI" THEN "mean_NDVI" ELSE "mean_EVI"

\* compute_index_for_row raises when a calculate_index_from_urls call raises.
WorkerRaises(scene, types) ==
    /\ scene.urls
    /\ \E k \in 1..Len(types) : calculate_index_from_urls(scene, types[k]).tag = "raise"

\* The dict compute_index_for_row returns, as a set of <<key, value>> pairs:
\* {} when a band URL is missing; otherwise date, cloud_cover and collection
\* of the row plus mean_<INDEX> for every index whose computation gave a mean.
compute_index_for_row(i, scene, types) ==
    IF ~scene.urls
    THEN {}
    ELSE {<<"date", i>>, <<"cloud_cover", i>>, <<"collection", i>>}
         \cup { <<MeanKey(types[k]), calculate_index_from_urls(scene, types[k]).mean>> :
                  k \in { j \in 1..Len(types) :
                            calculate_index_from_urls(scene, types[j]).tag = "mean" } }

N == Len(scenes)

\* max_workers = max(1, min(worker_cap, len(row_tuples)))
Min(a, b) == IF a < b THEN a ELSE b
Max(a, b) == IF a > b THEN a ELSE b
max_workers == Max(1, Min(workerCap, N))

\* The in-memory cache of a process that has not searched yet.
IdleMem ==
    /\ memOrder = <<>>
    /\ memVal = <<>>
    /\ recency = <<>>
    /\ memOp = [op |-> "none", key |-> {}, hit |-> FALSE, evicted |-> {}, lru |-> {}]

\* The frame search_hls_data returns after a failed catalog query:
\* pd.DataFrame(), no records and no origin.
EmptyFrame == [asOf |-> -1, max_cc |-> -1, dataset |-> ""]

NoRequest ==
    [bbox |-> <<>>, start |-> "", end |-> "", max_cc |-> 0, dataset |-> "", token |-> ""]

NoCall ==
    [src |-> "none", req |-> NoRequest, t |-> 0, recs |-> EmptyFrame,
     diskWas |-> "absent", memWas |-> FALSE, memSame |-> TRUE, diskSame |-> TRUE,
     queried |-> FALSE]

\* No search has been made: empty memo, empty cache directory.
IdleScenes ==
    /\ clock = 0
    /\ stMemo = <<>>
    /\ disk = <<>>
    /\ last = NoCall

\* No key derivation is under way.
IdleKeys ==
    /\ tieUp = <<>>
    /\ reqA = NoRequest
    /\ reqB = NoRequest
    /\ keyOut = <<>>

\* No catalog query is under way.
IdleFetch ==
    /\ fReq = NoRequest
    /\ fPc = "idle"
    /\ fStage = 0
    /\ fServed = <<>>
    /\ fRecords = <<>>

\* No AOI is being normalised.
NotNormalized == [ok |-> FALSE, box |-> <<>>]

IdleBbox ==
    /\ bIn = <<>>
    /\ bPc = "idle"
    /\ bOut = NotNormalized
    /\ bTwice = NotNormalized

\* No index is being computed.
IdleIndex ==
    /\ iWorld = <<>>
    /\ iCache = <<>>
    /\ iLast = <<>>

\* No report job is running.
IdleJobs ==
    /\ jPc = <<>>
    /\ jKey = <<>>
    /\ jOut = <<>>

\* weather_df is None or empty.
NoWeather == [column |-> "none", shape |-> "none", first |-> 1, last |-> 0]

\* No detection is under way.
IdleDetect ==
    /\ dObs = <<>>
    /\ dStamp = "midnight"
    /\ dWeather = NoWeather
    /\ dStd = "flat"
    /\ dTie = FALSE
    /\ dPc = "idle"
    /\ dFindings = <<>>
    /\ dDaily = {}

\* Python's None.
None == "None"

\* No report operation exists and no forecast is being made.
NoPrediction ==
    [model |-> "none", training |-> "empty", weather |-> "empty",
     predict |-> "raises", flowering |-> "raises", peak |-> FALSE]

NotPredicted ==
    [raised |-> FALSE, model |-> "", ndvi_peak |-> None,
     ndvi_peak_at |-> None, flowering_start_date |-> None,
     flowering_confidence |-> 0, flowering_method |-> None, error |-> None]

NoForecast == [model |-> "", ndviPeak |-> None, ndviPeakAt |-> None]

IdleApi ==
    /\ opTable = <<>>
    /\ opDocs = <<>>
    /\ opPc = <<>>
    /\ mlIn = NoPrediction
    /\ mlPc = "idle"
    /\ mlOut = NotPredicted
    /\ mlForecast = NoForecast

IdleExt ==
    /\ IdleFetch
    /\ IdleBbox
    /\ IdleIndex
    /\ IdleJobs
    /\ IdleDetect
    /\ IdleApi

\* No processing block is running.
IdleProc ==
    /\ scenes = <<>>
    /\ enableEvi = FALSE
    /\ workerCap = 1
    /\ pc = "idle"
    /\ fut = <<>>
    /\ yielded = {}
    /\ results = <<>>
    /\ completed = 0
    /\ seqIdx = 0

InitProc ==
    /\ IdleExt
    /\ IdleMem
    /\ IdleScenes
    /\ IdleKeys
    /\ \E n \in 1..MaxScenes : scenes \in [1..n -> SceneKinds]
    /\ enableEvi \in BOOLEAN
    /\ workerCap \in {1, 8}
    /\ pc = "submit"
    /\ fut = <<>>
    /\ yielded = {}
    /\ results = <<>>
    /\ completed = 0
    /\ seqIdx = 0

\* executor.submit(worker, row) for every row, in order.
Submit ==
    /\ pc = "submit"
    /\ fut' = [i \in 1..N |-> "queued"]
    /\ pc' = "collect"
    /\ UNCHANGED <<scenes, enableEvi, workerCap, yielded, results, completed, seqIdx>>
    /\ UNCHANGED nonProcVars

\* A pool thread takes the oldest queued work item; at most max_workers run.
StartTask(i) ==
    /\ pc = "collect"
    /\ fut[i] = "queued"
    /\ \A j \in 1..(i - 1) : fut[j] # "queued"
    /\ Cardinality({j \in 1..N : fut[j] = "running"}) < max_workers
    /\ fut' = [fut EXCEPT ![i] = "running"]
    /\ UNCHANGED <<scenes, enableEvi, workerCap, pc, yielded, results, completed, seqIdx>>
    /\ UNCHANGED nonProcVars

\* The worker call of a running task returns or raises; the future is done.
FinishTask(i) ==
    /\ pc = "collect"
    /\ fut[i] = "running"
    /\ fut' = [fut EXCEPT ![i] = "done"]
    /\ UNCHANGED <<scenes, enableEvi, workerCap, pc, yielded, results, completed, seqIdx>>
    /\ UNCHANGED nonProcVars

\* One iteration of `for future in as_completed(...)`: future.result() is
\* appended when truthy, an exception of the worker is logged and skipped.
CollectAppend(i) ==
    IF WorkerRaises(scenes[i], IndexTypes(enableEvi))
    THEN results
    ELSE IF compute_index_for_row(i, scenes[i], IndexTypes(enableEvi)) # {}
         THEN Append(results, compute_index_for_row(i, scenes[i], IndexTypes(enableEvi)))
         ELSE results

Collect(i) ==
    /\ pc = "collect"
    /\ fut[i] = "done"
    /\ i \notin yielded
    /\ yielded' = yielded \cup {i}
    /\ completed' = completed + 1
    /\ results' = CollectAppend(i)
    /\ UNCHANGED <<scenes, enableEvi, workerCap, pc, fut, seqIdx>>
    /\ UNCHANGED nonProcVars

\* as_completed is exhausted; the with block exits normally.
PoolExit ==
    /\ pc = "collect"
    /\ yielded = 1..N
    /\ pc' = "check"
    /\ UNCHANGED <<scenes, enableEvi, workerCap, fut, yielded, results, completed, seqIdx>>
    /\ UNCHANGED nonProcVars

\* Mutant: the handler keeps what was collected before the failure.
ParallelFailedResults_Keep(rs) == rs

\* `except Exception:` of the parallel block: results = [].
ParallelFailedResults(rs) == <<>>

\* An exception inside the try block (the pool cannot start a thread, a
\* progress or status call fails): the executor's __exit__ waits for the
\* submitted work, then the handler discards what was collected.
PoolFail ==
    /\ pc \in {"submit", "collect"}
    /\ fut' = [i \in DOMAIN fut |-> "done"]
    /\ results' = ParallelFailedResults(results)
    /\ pc' = "check"
    /\ UNCHANGED <<scenes, enableEvi, workerCap, yielded, completed, seqIdx>>
    /\ UNCHANGED nonProcVars

\* `if not results:` decides whether the sequential fallback runs.
CheckResults ==
    /\ pc = "check"
    /\ IF results = <<>>
       THEN pc' = "seq" /\ seqIdx' = 1
       ELSE pc' = "done" /\ UNCHANGED seqIdx
    /\ UNCHANGED <<scenes, enableEvi, workerCap, fut, yielded, results, completed>>
    /\ UNCHANGED nonProcVars

\* One iteration of the sequential loop: result = worker(row) is not guarded,
\* so an exception of the worker leaves the loop and the whole block.
SeqStep ==
    /\ pc = "seq"
    /\ seqIdx <= N
    /\ IF WorkerRaises(scenes[seqIdx], IndexTypes(enableEvi))
       THEN pc' = "aborted" /\ UNCHANGED <<results, seqIdx>>
       ELSE /\ results' =
                 IF compute_index_for_row(seqIdx, scenes[seqIdx], IndexTypes(enableEvi)) # {}
                 THEN Append(results,
                             compute_index_for_row(seqIdx, scenes[seqIdx], IndexTypes(enableEvi)))
                 ELSE results
            /\ seqIdx' = seqIdx + 1
            /\ pc' = pc
    /\ UNCHANGED <<scenes, enableEvi, workerCap, fut, yielded, completed>>
    /\ UNCHANGED nonProcVars

SeqExit ==
    /\ pc = "seq"
    /\ seqIdx > N
    /\ pc' = "done"
    /\ UNCHANGED <<scenes, enableEvi, workerCap, fut, yielded, results, completed, seqIdx>>
    /\ UNCHANGED nonProcVars

NextProc ==
    \/ Submit
    \/ \E i \in 1..N : StartTask(i)
    \/ \E i \in 1..N : FinishTask(i)
    \/ \E i \in 1..N : Collect(i)
    \/ PoolExit
    \/ PoolFail
    \/ CheckResults
    \/ SeqStep
    \/ SeqExit

SpecProcess == InitProc /\ [][NextProc]_vars

(***************************************************************************)
(* Claims about the concurrent scene processor                             *)
(***************************************************************************)

Terminal == pc \in {"done", "aborted"}

\* The entry of results at position k carries a mean for some index.
HasMean(entry) == \E p \in entry : p[1] \in {"mean_NDVI", "mean_EVI"}

\* Scene i is individually processable: its worker call returns normally
\* with a mean for at least one requested index.
Processable(i) ==
    /\ ~WorkerRaises(scenes[i], IndexTypes(enableEvi))
    /\ HasMean(compute_index_for_row(i, scenes[i], IndexTypes(enableEvi)))

\* C1: an entry is in the result list only if at least one requested index
\* computed successfully for its scene (scenes failing every index are omitted).
C1_EntriesHaveAnIndex ==
    \A k \in 1..Len(results) : HasMean(results[k])

\* C2: when the parallel phase ends with no results the scenes are processed
\* sequentially, once each in submission order, and therefore the final result
\* list is non-empty whenever at least one scene is individually processable.
C2_FallbackYieldsResults ==
    (Terminal /\ \E i \in 1..N : Processable(i))
        => /\ pc = "done"
           /\ results # <<>>
           /\ (seqIdx # 0 => seqIdx = N + 1)

\* The successful (scene, index, mean) triples of a result list, with the
\* number of entries that carry each.
PairCount(rs, i, t, m) ==
    Cardinality({ k \in 1..Len(rs) : <<"date", i>> \in rs[k] /\ <<MeanKey(t), m>> \in rs[k] })

ExpectedCount(i, t, m) ==
    IF /\ scenes[i].urls
       /\ ~WorkerRaises(scenes[i], IndexTypes(enableEvi))
       /\ \E k \in 1..Len(IndexTypes(enableEvi)) : IndexTypes(enableEvi)[k] = t
       /\ calculate_index_from_urls(scenes[i], t) = Mean(m)
    THEN 1 ELSE 0

MeanValues == { s.ndvi.mean : s \in SceneKinds } \cup { s.evi.mean : s \in SceneKinds }

\* C3: whatever the worker budget (1 or 8) and whatever the interleaving and
\* completion order of the tasks, a finished run holds the same multiset of
\* successful (scene, mean index) pairs, the one the scene list determines.
C3_ResultIndependentOfSchedule ==
    pc = "done" =>
        \A i \in 1..N : \A t \in {"NDVI", "EVI"} : \A m \in MeanValues :
            PairCount(results, i, t, m) = ExpectedCount(i, t, m)

\* C3 witness: a run with budget 8 that finished with two entries collected
\* in completion order opposite to submission order.
C3_Witness ==
    /\ pc = "done"
    /\ workerCap = 8
    /\ seqIdx = 0
    /\ Len(results) >= 2
    /\ <<"date", 2>> \in results[1]
    /\ <<"date", 1>> \in results[2]
    /\ HasMean(results[1])
    /\ HasMean(results[2])

\* C4: a failure while processing one scene (an exception, a none result)
\* never keeps the other scenes of the batch from being processed and
\* collected, in the parallel phase and in the sequential fallback alike.
C4_SceneFailureNeverAbortsBatch ==
    Terminal =>
        \A i \in 1..N :
            (/\ ~WorkerRaises(scenes[i], IndexTypes(enableEvi))
             /\ compute_index_for_row(i, scenes[i], IndexTypes(enableEvi)) # {})
                => \E k \in 1..Len(results) :
                       results[k] = compute_index_for_row(i, scenes[i], IndexTypes(enableEvi))

\* The positions of the result list that hold an entry of scene i.
EntriesOf(i) == { k \in 1..Len(results) : <<"date", i>> \in results[k] }

\* C28: each scene contributes at most one entry to the result list: a
\* parallel phase that fails leaves an empty list behind, whatever it had
\* collected, and the sequential fallback runs only on a list that was empty,
\* so that every entry present during and after it is one it appended.
C28_AtMostOneEntryPerScene ==
    /\ \A i \in 1..N : Cardinality(EntriesOf(i)) <= 1
    /\ (pc = "check" /\ yielded # 1..N) => results = <<>>
    /\ seqIdx > 0 =>
          \A k \in 1..Len(results) : \E i \in 1..(seqIdx - 1) : k \in EntriesOf(i)
    /\ (Terminal /\ yielded # 1..N) => seqIdx > 0

\* C28 witness: the parallel phase collected the entry of a processable scene
\* and then failed; the sequential fallback ran to its end and the finished
\* run holds that scene's entry once.
C28_Witness ==
    /\ pc = "done"
    /\ seqIdx = N + 1
    /\ yielded # 1..N
    /\ \E i \in yielded : Processable(i) /\ Cardinality(EntriesOf(i)) = 1

(***************************************************************************)
(* In-memory scene cache: an OrderedDict with at most                      *)
(* _STAC_MEMORY_CACHE_MAX_ENTRIES entries                                  *)
(***************************************************************************)
STAC_MEMORY_CACHE_MAX_ENTRIES == 32

MaxRecVersion == 2

Range(f) == { f[i] : i \in DOMAIN f }

Without(seq, k) == SelectSeq(seq, LAMBDA x : x # k)

\* OrderedDict.move_to_end(key)
OD_MoveToEnd(order, k) == Append(Without(order, k), k)

\* OrderedDict.__setitem__: a new key goes to the end, a known key keeps its place.
OD_SetItem(order, k) == IF k \in Range(order) THEN order ELSE Append(order, k)

\* Mutant: popitem() with its default last=True.
OD_PopItem_Last(order) == SubSeq(order, 1, Len(order) - 1)

\* OrderedDict.popitem(last=False)
OD_PopItem(order) == Tail(order)

\* _get_stac_records_from_memory: a hit moves the key to the end.
MemGetOrder(order, k) ==
    IF k \notin Range(order) THEN order ELSE OD_MoveToEnd(order, k)

\* _set_stac_records_in_memory: assign, move to the end, evict when too long.
MemSetOrder(order, k) ==
    LET o1 == OD_MoveToEnd(OD_SetItem(order, k), k)
    IN  IF Len(o1) > STAC_MEMORY_CACHE_MAX_ENTRIES THEN OD_PopItem(o1) ELSE o1

MemSetVal(val, order2, k, recs) ==
    [x \in Range(order2) |-> IF x = k THEN recs ELSE val[x]]

\* History of use, kept apart from the OrderedDict: key k was just used and
\* the keys of gone left the cache.
Used(rec, k, gone) ==
    SelectSeq(Append(Without(rec, k), k), LAMBDA x : x \notin gone)

NoMemOp == [op |-> "none", key |-> {}, hit |-> FALSE, evicted |-> {}, lru |-> {}]

\* cached_records = _get_stac_records_from_memory(cache_key)
MemLookup(k) ==
    /\ memOrder' = MemGetOrder(memOrder, k)
    /\ memVal' = memVal
    /\ recency' = IF k \in Range(memOrder) THEN Used(recency, k, {}) ELSE recency
    /\ memOp' = [op |-> "get", key |-> {k}, hit |-> k \in Range(memOrder),
                 evicted |-> {}, lru |-> {}]

\* _set_stac_records_in_memory(cache_key, records)
MemStore(k, recs) ==
    /\ memOrder' = MemSetOrder(memOrder, k)
    /\ memVal' = MemSetVal(memVal, memOrder', k, recs)
    /\ recency' = Used(recency, k, (Range(memOrder) \cup {k}) \ Range(memOrder'))
    /\ memOp' = [op |-> "set", key |-> {k}, hit |-> k \in Range(memOrder),
                 evicted |-> (Range(memOrder) \cup {k}) \ Range(memOrder'),
                 lru |-> IF recency = <<>> THEN {} ELSE {Head(recency)}]

\* The cache alone, driven by lookups and insertions of a few keys: the two
\* oldest of a full cache and two keys it does not hold.  The cache starts
\* empty, or as STAC_MEMORY_CACHE_MAX_ENTRIES distinct searches leave it.
ActiveKeys ==
    {1, 2, STAC_MEMORY_CACHE_MAX_ENTRIES + 1, STAC_MEMORY_CACHE_MAX_ENTRIES + 2}

WarmOrder == [i \in 1..STAC_MEMORY_CACHE_MAX_ENTRIES |-> i]

InitMemCache ==
    /\ IdleExt
    /\ IdleProc
    /\ IdleScenes
    /\ IdleKeys
    /\ memOrder \in {<<>>, WarmOrder}
    /\ memVal = [k \in Range(memOrder) |-> 1]
    /\ recency = memOrder
    /\ memOp = NoMemOp

CacheLookup ==
    /\ \E k \in ActiveKeys : MemLookup(k)
    /\ UNCHANGED nonMemVars

CacheStore ==
    /\ \E k \in ActiveKeys : \E recs \in 1..MaxRecVersion : MemStore(k, recs)
    /\ UNCHANGED nonMemVars

NextMemCache == CacheLookup \/ CacheStore

SpecMemCache == InitMemCache /\ [][NextMemCache]_vars

\* C7: the in-memory cache never holds more than its capacity (32) entries,
\* and an insertion that exceeds the capacity evicts exactly the least
\* recently used entry (least recently looked up or inserted), never the
\* entry just inserted.
C7_BoundedLruCache ==
    /\ Len(memOrder) <= STAC_MEMORY_CACHE_MAX_ENTRIES
    /\ Cardinality(Range(memOrder)) = Len(memOrder)
    /\ DOMAIN memVal = Range(memOrder)
    /\ memOp.op = "set" => memOp.key \subseteq Range(memOrder)
    /\ memOp.evicted # {} =>
          /\ memOp.op = "set"
          /\ memOp.evicted = memOp.lru
          /\ memOp.evicted \cap memOp.key = {}

\* C7 witness: an insertion into the full cache evicted key 2 while the older
\* key 1, looked up in between, stayed.
C7_Witness ==
    /\ memOp.op = "set"
    /\ memOp.evicted = {2}
    /\ 1 \in Range(memOrder)
    /\ Len(memOrder) = STAC_MEMORY_CACHE_MAX_ENTRIES

(***************************************************************************)
(* Cache key derivation.  Coordinates are integers in units of 1e-7        *)
(* degree, cloud-cover thresholds integers in tenths of a percent, so that *)
(* round(coord, 6) and int(max_cc) are the conversions they are in Python. *)
(***************************************************************************)

\* round(float(coord), 6), in units of 1e-6 degree: to the nearest multiple;
\* a decimal tie goes the way of the double that represents the coordinate.
Round6(x) ==
    LET q == x \div 10
        r == x % 10
    IN  IF r < 5 THEN q
        ELSE IF r > 5 THEN q + 1
        ELSE IF tieUp[x] THEN q + 1 ELSE q

\* int(max_cc): truncation toward zero, in whole percent.
IntTrunc(x) == IF x >= 0 THEN x \div 10 ELSE -((-x) \div 10)

\* hashlib.sha256(...).hexdigest(), taken as collision free.
Sha256(text) == "sha256:" \o text

\* sorted([a, b])
\* Mutant: the pair is left as given.
Sorted2_AsGiven(a, b) == <<a, b>>

\* sorted([a, b])
Sorted2(a, b) == IF a <= b THEN <<a, b>> ELSE <<b, a>>

\* Mutant: a valid AOI is returned latitude first.
normalize_bbox_LatFirst(bbox) ==
    IF /\ Len(bbox) = 4
       /\ \A i \in {1, 3} : -1800000000 <= bbox[i] /\ bbox[i] <= 1800000000
       /\ \A j \in {2, 4} : -900000000 <= bbox[j] /\ bbox[j] <= 900000000
       /\ bbox[1] # bbox[3]
       /\ bbox[2] # bbox[4]
    THEN [ok |-> TRUE, box |-> <<Sorted2(bbox[2], bbox[4])[1], Sorted2(bbox[1], bbox[3])[1],
                                 Sorted2(bbox[2], bbox[4])[2], Sorted2(bbox[1], bbox[3])[2]>>]
    ELSE [ok |-> FALSE, box |-> <<>>]

\* normalize_bbox: [ok |-> FALSE] stands for the ValueError.
normalize_bbox(bbox) ==
    IF Len(bbox) # 4
    THEN [ok |-> FALSE, box |-> <<>>]
    ELSE LET lon == Sorted2(bbox[1], bbox[3])
             lat == Sorted2(bbox[2], bbox[4])
         IN  IF ~(-1800000000 <= lon[1] /\ lon[1] <= 1800000000
                  /\ -1800000000 <= lon[2] /\ lon[2] <= 1800000000)
             THEN [ok |-> FALSE, box |-> <<>>]
             ELSE IF ~(-900000000 <= lat[1] /\ lat[1] <= 900000000
                       /\ -900000000 <= lat[2] /\ lat[2] <= 900000000)
             THEN [ok |-> FALSE, box |-> <<>>]
             ELSE IF lon[1] = lon[2] \/ lat[1] = lat[2]
             THEN [ok |-> FALSE, box |-> <<>>]
             ELSE [ok |-> TRUE, box |-> <<lon[1], lat[1], lon[2], lat[2]>>]

\* Mutant: the coordinate is truncated to 6 decimals instead of rounded.
RoundedBbox_Trunc(bbox) ==
    [i \in 1..Len(bbox) |-> IF bbox[i] >= 0 THEN bbox[i] \div 10 ELSE -((-bbox[i]) \div 10)]

\* [round(float(coord), 6) for coord in bbox]
RoundedBbox(bbox) == [i \in 1..Len(bbox) |-> Round6(bbox[i])]

\* get_stac_cache_path: the payload whose SHA-256 names the cache file.
get_stac_cache_path(bbox, start, end, max_cc, dataset_type, token) ==
    [bbox |-> RoundedBbox(bbox),
     start |-> start,
     end |-> end,
     max_cc |-> IntTrunc(max_cc),
     dataset |-> dataset_type,
     token |-> IF token # "" THEN Sha256(token) ELSE "",
     version |-> "1"]

\* _stac_token_fingerprint
stac_token_fingerprint(token) == IF token = "" THEN "anon" ELSE Sha256(token)

\* _make_stac_memory_cache_key
make_stac_memory_cache_key(bbox, start, end, max_cc, dataset_type, token) ==
    <<RoundedBbox(bbox), start, end, IntTrunc(max_cc), dataset_type,
      stac_token_fingerprint(token)>>

\* The key st.cache_data hashes: every argument but _token, as passed.
StMemoKey(req) == <<req.bbox, req.start, req.end, req.max_cc, req.dataset>>

\* The keys search_hls_data derives for a request (lines 796-798 and 688).
DiskKeyOf(req) ==
    get_stac_cache_path(normalize_bbox(req.bbox).box, req.start, req.end,
                        req.max_cc, req.dataset, req.token)

MemKeyOf(req) ==
    make_stac_memory_cache_key(normalize_bbox(req.bbox).box, req.start, req.end,
                               req.max_cc, req.dataset, req.token)

\* Requests for the key derivation: west and south edges around 30.0 E and
\* 45.0 S vary in the 6th and 7th decimal, thresholds 20.0, 20.5 and 30.0 %.
KeyLons == {300000000, 300000004, 300000005, 300000006, 300000014}
KeyLats == {-450000004, -450000006}
KeyMaxCc == {200, 205, 300}
KeyDatasets == {"Both", "HLSS30.v2.0"}
KeyTokens == {"", "tok"}

KeyRequests ==
    { [bbox |-> <<lo, la, 301000000, -449000000>>, start |-> "2024-01-01",
       end |-> "2024-12-31", max_cc |-> cc, dataset |-> ds, token |-> tk] :
        lo \in KeyLons, la \in KeyLats, cc \in KeyMaxCc, ds \in KeyDatasets,
        tk \in KeyTokens }

TieCoords == { x \in KeyLons \cup KeyLats : x % 10 = 5 }

InitKeys ==
    /\ IdleExt
    /\ IdleProc
    /\ IdleMem
    /\ IdleScenes
    /\ tieUp \in [TieCoords -> BOOLEAN]
    /\ reqA \in KeyRequests
    /\ reqB \in KeyRequests
    /\ keyOut = <<>>

\* Both requests get their on-disk and in-memory keys.
DeriveKeys ==
    /\ keyOut = <<>>
    /\ keyOut' = <<DiskKeyOf(reqA), DiskKeyOf(reqB), MemKeyOf(reqA), MemKeyOf(reqB)>>
    /\ UNCHANGED <<tieUp, reqA, reqB>>
    /\ UNCHANGED <<procVars, memVars, sceneVars, extVars>>

NextKeys == DeriveKeys

SpecKeys == InitKeys /\ [][NextKeys]_vars

Keyed == keyOut # <<>>

SameKeys == keyOut[1] = keyOut[2] /\ keyOut[3] = keyOut[4]

DifferentKeys == keyOut[1] # keyOut[2] /\ keyOut[3] # keyOut[4]

\* a and b differ only in the AOI.
OnlyBboxDiffers(a, b) == [a EXCEPT !.bbox = b.bbox] = b

\* The first six decimals of a coordinate.
Decimals6(x) == IF x >= 0 THEN x \div 10 ELSE -((-x) \div 10)

NearMultiple(x, q) == -5 < x - 10 * q /\ x - 10 * q < 5

STAC_CACHE_TTL_SECONDS == 3600 * 24 * 7

\* @st.cache_data(ttl=3600 * 24 * 7)
ST_CACHE_TTL_SECONDS == 3600 * 24 * 7

MaxEpochs == 1
MaxTicks == 1

\* The requests made: one AOI with 20 % and with 30 % maximum cloud cover,
\* and the 20 % request again with its west edge 4e-7 degree further east
\* (as passed a different argument, rounded the same AOI).
SceneRequests ==
    { [bbox |-> <<300000000, -450000000, 301000000, -449000000>>,
       start |-> "2024-01-01", end |-> "2024-12-31", max_cc |-> cc,
       dataset |-> "Both", token |-> "tok"] : cc \in {200, 300} }
    \cup
    { [bbox |-> <<300000004, -450000000, 301000000, -449000000>>,
       start |-> "2024-01-01", end |-> "2024-12-31", max_cc |-> 200,
       dataset |-> "Both", token |-> "tok"] }

\* What the catalog returns at time t for a request: the scenes it holds at
\* t, filtered by the request's threshold and dataset (lines 713-785).
CatalogRecords(t, req) == [asOf |-> t, max_cc |-> req.max_cc, dataset |-> req.dataset]

\* st.cache_data: an entry is served while its age is below the ttl.
MemoHit(memo, k, now) ==
    /\ k \in DOMAIN memo
    /\ now - memo[k].t < ST_CACHE_TTL_SECONDS

MemoPut(memo, k, value, now) ==
    [x \in DOMAIN memo \cup {k} |-> IF x = k THEN [val |-> value, t |-> now] ELSE memo[x]]

\* Mutant: the age test of load_stac_cache turned around.
StacCacheExpired_Reversed(mtime, now) == now - mtime <= STAC_CACHE_TTL_SECONDS

\* load_stac_cache: age = time.time() - st_mtime; age > STAC_CACHE_TTL_SECONDS
StacCacheExpired(mtime, now) == now - mtime > STAC_CACHE_TTL_SECONDS

\* load_stac_cache returns records (not None).
load_stac_cache_hit(d, path, now) ==
    /\ path \in DOMAIN d
    /\ ~StacCacheExpired(d[path].mtime, now)

\* The cache directory after load_stac_cache: an expired file is unlinked.
load_stac_cache_disk(d, path, now) ==
    IF path \in DOMAIN d /\ StacCacheExpired(d[path].mtime, now)
    THEN [x \in DOMAIN d \ {path} |-> d[x]]
    ELSE d

\* store_stac_cache: cache_path.write_text(...); a failure is only logged.
store_stac_cache(d, path, recs, now, ok) ==
    IF ok
    THEN [x \in DOMAIN d \cup {path} |-> IF x = path THEN [recs |-> recs, mtime |-> now] ELSE d[x]]
    ELSE d

\* History: the state of the request's cache file before the call.
DiskState(d, path, now) ==
    IF path \notin DOMAIN d THEN "absent"
    ELSE IF now - d[path].mtime <= STAC_CACHE_TTL_SECONDS THEN "fresh" ELSE "stale"

\* No file was written or rewritten between d and d2.
NothingWritten(d, d2) == \A x \in DOMAIN d2 : x \in DOMAIN d /\ d2[x] = d[x]

InitScenes ==
    /\ IdleExt
    /\ IdleProc
    /\ IdleMem
    /\ IdleKeys
    /\ IdleScenes

Called(req, src, recs, queried) ==
    [src |-> src, req |-> req, t |-> clock, recs |-> recs,
     diskWas |-> DiskState(disk, DiskKeyOf(req), clock),
     memWas |-> MemKeyOf(req) \in Range(memOrder),
     memSame |-> (memOrder' = memOrder /\ memVal' = memVal),
     diskSame |-> NothingWritten(disk, disk'),
     queried |-> queried]

\* The st.cache_data wrapper answers without running search_hls_data.
SearchFromMemo(req) ==
    /\ MemoHit(stMemo, StMemoKey(req), clock)
    /\ UNCHANGED <<stMemo, disk, memVars>>
    /\ last' = Called(req, "memo", stMemo[StMemoKey(req)].val, FALSE)

\* search_hls_data returns cached_df from load_stac_cache (lines 798-802).
SearchFromDisk(req) ==
    /\ ~MemoHit(stMemo, StMemoKey(req), clock)
    /\ load_stac_cache_hit(disk, DiskKeyOf(req), clock)
    /\ disk' = load_stac_cache_disk(disk, DiskKeyOf(req), clock)
    /\ UNCHANGED memVars
    /\ stMemo' = MemoPut(stMemo, StMemoKey(req), disk[DiskKeyOf(req)].recs, clock)
    /\ last' = Called(req, "disk", disk[DiskKeyOf(req)].recs, FALSE)

\* load_stac_cache misses, _fetch_stac_records returns the in-memory entry
\* (lines 688-698), search_hls_data stores it on disk (line 815).
SearchFromMemory(req, storeOk) ==
    /\ ~MemoHit(stMemo, StMemoKey(req), clock)
    /\ ~load_stac_cache_hit(disk, DiskKeyOf(req), clock)
    /\ MemKeyOf(req) \in Range(memOrder)
    /\ MemLookup(MemKeyOf(req))
    /\ disk' = store_stac_cache(load_stac_cache_disk(disk, DiskKeyOf(req), clock),
                                DiskKeyOf(req), memVal[MemKeyOf(req)], clock, storeOk)
    /\ stMemo' = MemoPut(stMemo, StMemoKey(req), memVal[MemKeyOf(req)], clock)
    /\ last' = Called(req, "memory", memVal[MemKeyOf(req)], FALSE)

\* Both caches miss and the catalog answers: the records go to the
\* in-memory cache (line 787) and to disk (line 815).
SearchFromCatalog(req, storeOk) ==
    /\ ~MemoHit(stMemo, StMemoKey(req), clock)
    /\ ~load_stac_cache_hit(disk, DiskKeyOf(req), clock)
    /\ MemKeyOf(req) \notin Range(memOrder)
    /\ MemStore(MemKeyOf(req), CatalogRecords(clock, req))
    /\ disk' = store_stac_cache(load_stac_cache_disk(disk, DiskKeyOf(req), clock),
                                DiskKeyOf(req), CatalogRecords(clock, req), clock, storeOk)
    /\ stMemo' = MemoPut(stMemo, StMemoKey(req), CatalogRecords(clock, req), clock)
    /\ last' = Called(req, "catalog", CatalogRecords(clock, req), TRUE)

\* Both caches miss and the catalog query raises: `except Exception` returns
\* pd.DataFrame() (lines 806-809), which st.cache_data memoizes like any
\* other return value.
SearchCatalogFails(req) ==
    /\ ~MemoHit(stMemo, StMemoKey(req), clock)
    /\ ~load_stac_cache_hit(disk, DiskKeyOf(req), clock)
    /\ MemKeyOf(req) \notin Range(memOrder)
    /\ disk' = load_stac_cache_disk(disk, DiskKeyOf(req), clock)
    /\ UNCHANGED memVars
    /\ stMemo' = MemoPut(stMemo, StMemoKey(req), EmptyFrame, clock)
    /\ last' = Called(req, "error", EmptyFrame, TRUE)

\* One call of search_hls_data.
search_hls_data ==
    /\ \E req \in SceneRequests :
          \/ SearchFromMemo(req)
          \/ SearchFromDisk(req)
          \/ \E storeOk \in BOOLEAN : SearchFromMemory(req, storeOk)
          \/ \E storeOk \in BOOLEAN : SearchFromCatalog(req, storeOk)
          \/ SearchCatalogFails(req)
    /\ UNCHANGED <<clock, procVars, keyVars, extVars>>

\* Time passes: a second, or a whole TTL.
Tick ==
    /\ \/ /\ clock % STAC_CACHE_TTL_SECONDS < MaxTicks
          /\ clock' = clock + 1
       \/ /\ clock \div STAC_CACHE_TTL_SECONDS < MaxEpochs
          /\ clock' = clock + STAC_CACHE_TTL_SECONDS
    /\ UNCHANGED <<stMemo, disk, last, procVars, memVars, keyVars, extVars>>

NextScenes == search_hls_data \/ Tick

SpecScenes == InitScenes /\ [][NextScenes]_vars

(***************************************************************************)
(* Claims about the scene catalog client                                   *)
(***************************************************************************)

\* The last call ran the body of search_hls_data (the memo did not answer).
BodyRan == last.src \in {"disk", "memory", "catalog", "error"}

\* C5 (as claimed): the in-memory cache is consulted first, the on-disk
\* cache only after an in-memory miss, the catalog only when both miss: a
\* request whose key is in the in-memory cache is answered from it.
C5_MemoryBeforeDisk ==
    BodyRan =>
        /\ last.memWas => last.src = "memory"
        /\ last.src = "disk" => ~last.memWas
        /\ last.queried => (~last.memWas /\ last.diskWas # "fresh")

\* C5 (amended): a call that runs search_hls_data consults the on-disk cache
\* first, the in-memory cache only after an on-disk miss (no file or a stale
\* one) and the catalog only when both miss; a request with a fresh cache
\* file is answered from it and the in-memory cache is not touched.
C5_DiskBeforeMemory ==
    BodyRan =>
        /\ last.diskWas = "fresh" => (last.src = "disk" /\ last.memSame /\ ~last.queried)
        /\ (last.diskWas # "fresh" /\ last.memWas) => (last.src = "memory" /\ ~last.queried)
        /\ (last.diskWas # "fresh" /\ ~last.memWas) =>
               (last.queried /\ last.src \in {"catalog", "error"})

\* C5 witness: a request found in both caches was answered from the file.
C5_Witness ==
    /\ last.src = "disk"
    /\ last.memWas
    /\ last.diskWas = "fresh"

\* C6: a cached scene list is served only while its age is at most TTL: a
\* request whose cached list was written more than TTL ago is a miss (the
\* stale file is removed) and the catalog is queried again; an entry of age
\* at most TTL is a hit.
C6_CachedListsExpire ==
    /\ (BodyRan /\ last.diskWas = "stale") => last.queried
    /\ (BodyRan /\ last.diskWas = "fresh") => last.src = "disk"
    /\ (last.src \in {"memo", "disk", "memory"} /\ last.recs # EmptyFrame)
           => last.t - last.recs.asOf <= STAC_CACHE_TTL_SECONDS

\* C10: when the catalog query fails the call returns an empty scene list,
\* writes to neither cache, and no later identical request is served the
\* failure instead of querying the catalog again.
C10_FailureIsNotCached ==
    /\ last.src = "error" =>
           (last.recs = EmptyFrame /\ last.memSame /\ last.diskSame)
    /\ ~(last.src \in {"memo", "disk", "memory"} /\ last.recs = EmptyFrame)

(***************************************************************************)
(* One catalog query: _fetch_stac_records (chipnik_monitor.py 680-788)     *)
(***************************************************************************)
STAC_MAX_ITEMS == 2000

\* Number of items of an answer that are chosen one by one.
MaxTail == 1

\* if dataset_type == "HLSS30.v2.0" ... elif ... else both (lines 713-718)
Collections(dataset_type) ==
    IF dataset_type = "HLSS30.v2.0" THEN <<"HLSS30.v2.0">>
    ELSE IF dataset_type = "HLSL30.v2.0" THEN <<"HLSL30.v2.0">>
    ELSE <<"HLSS30.v2.0", "HLSL30.v2.0">>

\* A catalog item: eo:cloud_cover in tenths of a percent, NoCloudCover when
\* the item has no such property, and the href of each asset, "none" when the
\* item has no such asset, "" when the href is empty.
NoCloudCover == -1

Item(cc, b8a, b05, b04, b02) == [cc |-> cc, B8A |-> b8a, B05 |-> b05, B04 |-> b04, B02 |-> b02]

ItemKinds ==
    { Item(0, "b8a", "none", "b04", "b02"),
      Item(200, "b8a", "b05", "b04", "b02"),
      Item(201, "b8a", "none", "b04", "b02"),
      Item(NoCloudCover, "b8a", "none", "b04", "b02"),
      Item(0, "none", "b05", "b04", "b02"),
      Item(0, "none", "none", "b04", "b02"),
      Item(0, "b8a", "none", "", "b02"),
      Item(0, "b8a", "none", "b04", "none") }

\* cloud_cover = props.get("eo:cloud_cover", 100)
CloudCoverOf(item) == IF item.cc = NoCloudCover THEN 1000 ELSE item.cc

\* Mutant: the threshold itself already counts as exceeding.
CloudTooHigh_AtThreshold(cloud_cover, max_cc) == cloud_cover >= max_cc

\* if cloud_cover > max_cc: continue
CloudTooHigh(cloud_cover, max_cc) == cloud_cover > max_cc

\* getattr(asset, "href", None) of item.assets.get(name)
Href(asset) == asset

\* `not url`: None and the empty string
Falsy(url) == url \in {"none", ""}

\* nir_asset = item.assets.get("B8A") or item.assets.get("B05")
NirUrl(item) == IF item.B8A # "none" THEN Href(item.B8A) ELSE Href(item.B05)

\* The two `continue`s of the item loop.
Skipped(item, max_cc) ==
    \/ CloudTooHigh(CloudCoverOf(item), max_cc)
    \/ Falsy(NirUrl(item)) \/ Falsy(Href(item.B04)) \/ Falsy(Href(item.B02))

\* The dict appended for a kept item; its id is its place in the answer.
RecordOf(item, collection) ==
    [cloud_cover |-> CloudCoverOf(item), collection |-> collection,
     nir_url |-> NirUrl(item), red_url |-> Href(item.B04), blue_url |-> Href(item.B02)]

\* A search answer is a sequence of runs [item, n] of n equal items; the
\* items of a run [item, n] that follows `before` items sit at places
\* before + 1 .. before + n.
RECURSIVE Total(_)
Total(runs) == IF runs = <<>> THEN 0 ELSE Head(runs).n + Total(Tail(runs))

\* collected: the first STAC_MAX_ITEMS items of the answer (lines 732-741),
\* then the filter loop (lines 744-785).  Gives runs of records with the
\* places [from, to] of the items they come from.
RECURSIVE KeptRuns(_, _, _, _)
KeptRuns(runs, before, max_cc, collection) ==
    IF runs = <<>> \/ before >= STAC_MAX_ITEMS THEN <<>>
    ELSE LET r == Head(runs)
             to == Min(before + r.n, STAC_MAX_ITEMS)
             rest == KeptRuns(Tail(runs), before + r.n, max_cc, collection)
         IN  IF Skipped(r.item, max_cc) \/ r.n = 0 THEN rest
             ELSE <<[rec |-> RecordOf(r.item, collection), from |-> before + 1, to |-> to]>>
                  \o rest

\* The answers a search may give.
TailsUpTo(n) == UNION { [1..k -> ItemKinds] : k \in 0..n }

\* Short answers of any items, and long ones: STAC_MAX_ITEMS - 1 or
\* STAC_MAX_ITEMS equal items followed by a few more.
LongRuns ==
    { [item |-> Item(cc, "b8a", "none", "b04", "b02"), n |-> n] :
      cc \in {0, 201}, n \in {STAC_MAX_ITEMS - 1, STAC_MAX_ITEMS} }

LongRunTailKinds ==
    { Item(0, "none", "b05", "b04", "b02"), Item(NoCloudCover, "b8a", "none", "b04", "b02") }

Answers ==
    { [i \in 1..Len(t) |-> [item |-> t[i], n |-> 1]] : t \in TailsUpTo(MaxTail) }
    \cup
    { <<r>> \o [i \in 1..Len(t) |-> [item |-> t[i], n |-> 1]] :
        r \in LongRuns, t \in [1..MaxTail -> LongRunTailKinds] }

FetchRequests ==
    { [bbox |-> <<300000000, -450000000, 301000000, -449000000>>,
       start |-> "2024-01-01", end |-> "2024-12-31", max_cc |-> cc,
       dataset |-> ds, token |-> "tok"] :
      cc \in {200, 1000}, ds \in {"HLSS30.v2.0", "HLSL30.v2.0", "Both"} }

InitFetch ==
    /\ IdleDetect
    /\ IdleApi
    /\ IdleBbox
    /\ IdleIndex
    /\ IdleJobs
    /\ IdleProc
    /\ IdleMem
    /\ IdleKeys
    /\ IdleScenes
    /\ fReq \in FetchRequests
    /\ fPc = "start"
    /\ fStage = 0
    /\ fServed = <<>>
    /\ fRecords = <<>>

\* cached_records = _get_stac_records_from_memory(cache_key); a miss goes on
\* to the catalog (lines 688-712).
FetchStart ==
    /\ fPc = "start"
    /\ MemLookup(MemKeyOf(fReq))
    /\ fPc' = IF MemKeyOf(fReq) \in Range(memOrder) THEN "done" ELSE "query"
    /\ fRecords' = IF MemKeyOf(fReq) \in Range(memOrder) THEN memVal[MemKeyOf(fReq)] ELSE <<>>
    /\ UNCHANGED <<fReq, fStage, fServed>>
    /\ UNCHANGED <<procVars, sceneVars, keyVars, bboxVars, indexVars, jobVars, detectVars, apiVars>>

\* One turn of `for collection in collections`: the search and the filter.
FetchCollection ==
    /\ fPc = "query"
    /\ fStage < Len(Collections(fReq.dataset))
    /\ \E answer \in Answers :
          /\ fServed' = answer
          /\ fRecords' = fRecords \o KeptRuns(answer, 0, fReq.max_cc,
                                             Collections(fReq.dataset)[fStage + 1])
    /\ fStage' = fStage + 1
    /\ UNCHANGED <<fReq, fPc>>
    /\ UNCHANGED <<procVars, memVars, sceneVars, keyVars, bboxVars, indexVars, jobVars, detectVars, apiVars>>

\* _set_stac_records_in_memory(cache_key, records); return records
FetchReturn ==
    /\ fPc = "query"
    /\ fStage = Len(Collections(fReq.dataset))
    /\ MemStore(MemKeyOf(fReq), fRecords)
    /\ fPc' = "done"
    /\ UNCHANGED <<fReq, fStage, fServed, fRecords>>
    /\ UNCHANGED <<procVars, sceneVars, keyVars, bboxVars, indexVars, jobVars, detectVars, apiVars>>

NextFetch == FetchStart \/ FetchCollection \/ FetchReturn

SpecFetch == InitFetch /\ [][NextFetch]_vars

(***************************************************************************)
(* Claims about one catalog query                                          *)
(***************************************************************************)
\* The collection the last answer came from.
ServedCollection == Collections(fReq.dataset)[fStage]

\* Number of items of the last answer before its i-th run.
ItemsBefore(i) == Total(SubSeq(fServed, 1, i - 1))

\* The records made of the item at place p of the last answer.
RecordsOfPlace(p) ==
    { fRecords[j].rec : j \in { k \in DOMAIN fRecords :
                                  /\ fRecords[k].rec.collection = ServedCollection
                                  /\ fRecords[k].from <= p /\ p <= fRecords[k].to } }

\* The item has an asset with a link for NIR, for red and for blue.
HasLink(asset) == asset # "none" /\ asset # ""
HasRequiredBands(item) ==
    /\ HasLink(item.B8A) \/ HasLink(item.B05)
    /\ HasLink(item.B04)
    /\ HasLink(item.B02)

\* Cloud cover of an item, one without the property counting as 100 %.
CloudPercentTenths(item) == IF item.cc = NoCloudCover THEN 1000 ELSE item.cc

\* C11: after each catalog search the records list holds exactly the items
\* among the first STAC_MAX_ITEMS of the answer whose cloud cover (100 % when
\* the property is absent) is at most max_cc and that have NIR, red and blue
\* links; and no record has a cloud cover above max_cc or a missing link.
C11_RecordsAreTheFilteredItems ==
    /\ fStage >= 1 =>
         \A i \in DOMAIN fServed :
            \A p \in (ItemsBefore(i) + 1)..(ItemsBefore(i) + fServed[i].n) :
               LET item == fServed[i].item
                   wanted == /\ p <= STAC_MAX_ITEMS
                             /\ CloudPercentTenths(item) <= fReq.max_cc
                             /\ HasRequiredBands(item)
               IN  /\ RecordsOfPlace(p) # {} <=> wanted
                   /\ \A rec \in RecordsOfPlace(p) :
                           /\ rec.cloud_cover = CloudPercentTenths(item)
                           /\ rec.red_url = item.B04 /\ rec.blue_url = item.B02
                           /\ rec.nir_url \in {item.B8A, item.B05}
    /\ fPc = "query" =>
         \A j \in DOMAIN fRecords :
            /\ fRecords[j].rec.cloud_cover <= fReq.max_cc
            /\ HasLink(fRecords[j].rec.nir_url)
            /\ HasLink(fRecords[j].rec.red_url)
            /\ HasLink(fRecords[j].rec.blue_url)
            /\ fRecords[j].to <= STAC_MAX_ITEMS

\* An answer of more than STAC_MAX_ITEMS items, with an item that has no
\* cloud cover property, was filtered and something was kept and something
\* dropped.
C11_Witness ==
    /\ fPc = "done"
    /\ Total(fServed) > STAC_MAX_ITEMS
    /\ \E i \in DOMAIN fServed : fServed[i].item.cc = NoCloudCover
    /\ fRecords # <<>>
    /\ \E i \in DOMAIN fServed : Skipped(fServed[i].item, fReq.max_cc)

(***************************************************************************)
(* normalize_bbox applied once and again (chipnik_monitor.py 324-341)      *)
(***************************************************************************)
\* Coordinates in units of 1e-7 degree: the range ends, just beyond them,
\* and values inside.
BboxCoords ==
    { -1800000001, -1800000000, -900000001, -900000000, 0,
      300000000, 900000000, 900000001, 1800000000, 1800000001 }

BboxInputs ==
    [1..4 -> BboxCoords]
    \cup { <<>>, <<0, 0, 300000000>>, <<0, 0, 300000000, 300000000, 0>> }

InitBbox ==
    /\ IdleDetect
    /\ IdleApi
    /\ IdleFetch
    /\ IdleIndex
    /\ IdleJobs
    /\ IdleProc
    /\ IdleMem
    /\ IdleKeys
    /\ IdleScenes
    /\ bIn \in BboxInputs
    /\ bPc = "given"
    /\ bOut = NotNormalized
    /\ bTwice = NotNormalized

\* bbox = normalize_bbox(bbox)
Normalize ==
    /\ bPc = "given"
    /\ bOut' = normalize_bbox(bIn)
    /\ bPc' = "normalized"
    /\ UNCHANGED <<bIn, bTwice>>
    /\ UNCHANGED <<procVars, memVars, sceneVars, keyVars, fetchVars, indexVars, jobVars, detectVars, apiVars>>

\* normalize_bbox on an AOI that normalize_bbox returned, as search_hls_data
\* (line 796) and calculate_index_from_urls (line 871) do with their argument.
NormalizeAgain ==
    /\ bPc = "normalized"
    /\ bOut.ok
    /\ bTwice' = normalize_bbox(bOut.box)
    /\ bPc' = "renormalized"
    /\ UNCHANGED <<bIn, bOut>>
    /\ UNCHANGED <<procVars, memVars, sceneVars, keyVars, fetchVars, indexVars, jobVars, detectVars, apiVars>>

NextBbox == Normalize \/ NormalizeAgain

SpecBbox == InitBbox /\ [][NextBbox]_vars

\* C12: normalising an AOI that normalize_bbox accepted succeeds and gives
\* the same AOI again.
C12_NormalizeIdempotent ==
    bPc = "renormalized" => bTwice.ok /\ bTwice.box = bOut.box

\* An AOI given with both axes swapped was normalised twice.
C12_Witness ==
    /\ bPc = "renormalized"
    /\ bIn[1] > bIn[3] /\ bIn[2] > bIn[4]
    /\ bTwice.ok

LonInRange(x) == -1800000000 <= x /\ x <= 1800000000
LatInRange(y) == -900000000 <= y /\ y <= 900000000

\* The inputs the AOI contract rejects.
InvalidAOI(b) ==
    \/ Len(b) # 4
    \/ ~LonInRange(b[1]) \/ ~LonInRange(b[3])
    \/ ~LatInRange(b[2]) \/ ~LatInRange(b[4])
    \/ b[1] = b[3]
    \/ b[2] = b[4]

\* C13: normalize_bbox fails exactly on an input that is not four
\* coordinates, has a longitude outside [-180, 180], a latitude outside
\* [-90, 90], or zero width or height; on every other input it returns
\* (minLon, minLat, maxLon, maxLat) with minLon < maxLon and minLat < maxLat.
C13_NormalizeFailsExactlyOnInvalid ==
    bPc # "given" /\ bPc # "idle" =>
        /\ ~bOut.ok <=> InvalidAOI(bIn)
        /\ bOut.ok =>
             /\ bOut.box = << Min(bIn[1], bIn[3]), Min(bIn[2], bIn[4]),
                              Max(bIn[1], bIn[3]), Max(bIn[2], bIn[4]) >>
             /\ bOut.box[1] < bOut.box[3]
             /\ bOut.box[2] < bOut.box[4]

\* A valid AOI given with its longitudes swapped came back corrected.
C13_Witness ==
    /\ bPc = "normalized"
    /\ bOut.ok
    /\ bIn[1] > bIn[3]
    /\ bOut.box[1] = bIn[3] /\ bOut.box[3] = bIn[1]

(***************************************************************************)
(* Index computation: calculate_index_from_urls on a cache miss            *)
(* (chipnik_monitor.py 965-1048) with numpy's masked-array semantics       *)
(***************************************************************************)
\* Largest number of cells of a read window.
MaxCells == 4

\* A cell the raster marks invalid: read(1, window=..., masked=True) masks it.
NoData == -9999

\* Exact fractions n/d in lowest terms, d > 0; d = 0 stands for nan or inf.
RECURSIVE Gcd(_, _)
Gcd(a, b) == IF b = 0 THEN a ELSE Gcd(b, a % b)
Abs(x) == IF x < 0 THEN -x ELSE x
Rat(n, d) ==
    IF d = 0 THEN [n |-> 0, d |-> 0]
    ELSE LET g == Gcd(Abs(n), Abs(d))
             sg == IF d < 0 THEN -1 ELSE 1
         IN  [n |-> sg * (n \div g), d |-> sg * (d \div g)]
RAdd(x, y) == IF x.d = 0 \/ y.d = 0 THEN Rat(0, 0) ELSE Rat(x.n * y.d + y.n * x.d, x.d * y.d)

\* A band: whether _window_from_bbox finds a window, and the cells read.
Band(window, cells) == [window |-> window, cells |-> cells]

\* Cells of one place in the three bands.
CellKinds ==
    { [red |-> 2, nir |-> 6, blue |-> 0],
      [red |-> 0, nir |-> 0, blue |-> 0],
      [red |-> 2, nir |-> 2, blue |-> 2],
      [red |-> NoData, nir |-> 6, blue |-> 0],
      [red |-> 2, nir |-> 6, blue |-> NoData] }

WorldOf(kinds) ==
    [red  |-> Band(TRUE, [i \in DOMAIN kinds |-> kinds[i].red]),
     blue |-> Band(TRUE, [i \in DOMAIN kinds |-> kinds[i].blue]),
     nir  |-> Band(TRUE, [i \in DOMAIN kinds |-> kinds[i].nir])]

\* A scene whose every cell is valid in every band, and the ways one band of
\* it can be off: no window, nothing read, one cell short.
SoundWorld == WorldOf([i \in 1..MaxCells |-> [red |-> 2, nir |-> 6, blue |-> 0]])

BandFaults(band) ==
    { Band(FALSE, <<>>), Band(TRUE, <<>>), Band(TRUE, Tail(band.cells)) }

FaultWorlds ==
    { [SoundWorld EXCEPT !.red = b] : b \in BandFaults(SoundWorld.red) }
    \cup { [SoundWorld EXCEPT !.blue = b] : b \in BandFaults(SoundWorld.blue) }
    \cup { [SoundWorld EXCEPT !.nir = b] : b \in BandFaults(SoundWorld.nir) }

Worlds ==
    { WorldOf(k) : k \in UNION { [1..n -> CellKinds] : n \in 1..MaxCells } }
    \cup FaultWorlds

\* Mutant: the band is read without its mask.
BandMask_None(cells) == [i \in DOMAIN cells |-> FALSE]

\* np.ma.getmaskarray(band)
BandMask(cells) == [i \in DOMAIN cells |-> cells[i] = NoData]

\* Mutant: a plain ndarray division, which masks nothing.
DomainMasked_Never(den) == FALSE

\* numpy.ma division masks a cell whose divisor is zero.
DomainMasked(den) == den = 0

\* Numerator and divisor of the index at cell i: NDVI = (nir - red) / (nir + red),
\* EVI = 2.5 (nir - red) / (nir + 6 red - 7.5 blue + 1), the latter with both
\* sides doubled.
Numer(t, w, i) ==
    IF t = "NDVI" THEN w.nir.cells[i] - w.red.cells[i]
    ELSE 5 * (w.nir.cells[i] - w.red.cells[i])

Denom(t, w, i) ==
    IF t = "NDVI" THEN w.nir.cells[i] + w.red.cells[i]
    ELSE 2 * w.nir.cells[i] + 12 * w.red.cells[i] - 15 * w.blue.cells[i] + 2

\* Mask of the MaskedArray the arithmetic yields: the masks of its operands
\* and the cells the division masks.
ArithmeticMask(t, w) ==
    [i \in DOMAIN w.red.cells |->
        \/ BandMask(w.red.cells)[i]
        \/ BandMask(w.nir.cells)[i]
        \/ t = "EVI" /\ BandMask(w.blue.cells)[i]
        \/ DomainMasked(Denom(t, w, i))]

\* combined_mask (lines 1014, 1019-1023)
CombinedMask(t, w) ==
    [i \in DOMAIN w.red.cells |->
        \/ BandMask(w.red.cells)[i]
        \/ BandMask(w.nir.cells)[i]
        \/ t = "EVI" /\ BandMask(w.blue.cells)[i]]

\* np.ma.array(data, mask=mask) keeps the mask data already has.
MaskedArrayMask(dataMask, mask) == [i \in DOMAIN mask |-> dataMask[i] \/ mask[i]]

\* masked_data.count()
Count(mask) == Cardinality({ i \in DOMAIN mask : ~mask[i] })

\* Sum of the unmasked cells among the first k.
RECURSIVE MaskedSum(_, _, _, _)
MaskedSum(t, w, mask, k) ==
    IF k = 0 THEN Rat(0, 1)
    ELSE IF mask[k] THEN MaskedSum(t, w, mask, k - 1)
    ELSE RAdd(MaskedSum(t, w, mask, k - 1), Rat(Numer(t, w, k), Denom(t, w, k)))

\* masked_data.mean()
MaskedMean(t, w, mask) ==
    LET s == MaskedSum(t, w, mask, Len(mask))
    IN  Rat(s.n, s.d * Count(mask))

\* summarise_ndvi_stats: valid pixels and those with NDVI >= 0.35.
NdviStats(w, mask) ==
    [valid_pixels |-> Count(mask),
     crop_pixels |-> Cardinality({ i \in DOMAIN mask :
                        /\ ~mask[i]
                        /\ Denom("NDVI", w, i) > 0
                        /\ 100 * Numer("NDVI", w, i) >= 35 * Denom("NDVI", w, i) })]

NoStats == [valid_pixels |-> 0, crop_pixels |-> 0]

\* (None, None, None)
NoneTriple == [none |-> TRUE, mask |-> <<>>, mean |-> Rat(0, 1), stats |-> NoStats]

\* (masked_data, mean_index, stats)
Triple(mask, mean, stats) == [none |-> FALSE, mask |-> mask, mean |-> mean, stats |-> stats]

\* Mutant: a raster without a valid cell is treated like any other.
ZeroValid_Never(mask) == FALSE

\* if masked_data.count() == 0
ZeroValid(mask) == Count(mask) = 0

\* The body of calculate_index_from_urls after a cache miss, up to the
\* result it is about to store.
IndexOnMiss(t, w) ==
    IF ~w.red.window THEN NoneTriple
    ELSE IF ~w.blue.window THEN NoneTriple
    ELSE IF ~w.nir.window THEN NoneTriple
    ELSE IF Len(w.red.cells) = 0 \/ Len(w.nir.cells) = 0 THEN NoneTriple
    ELSE IF Len(w.red.cells) # Len(w.nir.cells) \/ Len(w.red.cells) # Len(w.blue.cells)
    THEN NoneTriple
    ELSE LET mask == MaskedArrayMask(ArithmeticMask(t, w), CombinedMask(t, w))
         IN  IF ZeroValid(mask) THEN NoneTriple
             ELSE Triple(mask, MaskedMean(t, w, mask),
                         IF t = "NDVI" THEN NdviStats(w, mask) ELSE NoStats)

(***************************************************************************)
(* calculate_index_from_urls with its cache file (lines 857-1053)          *)
(***************************************************************************)
IndexKinds == {"NDVI", "EVI"}

\* A cache file: absent, stored by np.savez_compressed, or unreadable.
NoEntry == [state |-> "absent", result |-> NoneTriple]
Stored(result) == [state |-> "stored", result |-> result]
Unreadable == [state |-> "corrupt", result |-> NoneTriple]

\* The record of a call: the index asked for, how it ended ("hit",
\* "computed", "raised"), what it returned, the cache file before it, how
\* the save went, and whether the call before it was for the same index and
\* computed (None, None, None).
NoIndexCall ==
    [t |-> "", outcome |-> "none", result |-> NoneTriple, before |-> "absent",
     write |-> "", afterNone |-> FALSE]

IndexCall(t, outcome, result, write) ==
    [t |-> t, outcome |-> outcome, result |-> result, before |-> iCache[t].state,
     write |-> write,
     afterNone |-> iLast.t = t /\ iLast.outcome = "computed" /\ iLast.result.none]

InitIndex ==
    /\ IdleDetect
    /\ IdleApi
    /\ IdleFetch
    /\ IdleBbox
    /\ IdleJobs
    /\ IdleProc
    /\ IdleMem
    /\ IdleKeys
    /\ IdleScenes
    /\ iWorld \in Worlds
    /\ iCache = [t \in IndexKinds |-> NoEntry]
    /\ iLast = NoIndexCall

\* What np.savez_compressed leaves: the entry, nothing, or a partial file.
Saved(result, write) ==
    IF write = "ok" THEN Stored(result)
    ELSE IF write = "partial" THEN Unreadable
    ELSE NoEntry

\* cache_dir.mkdir(parents=True, exist_ok=True) of get_index_cache_path
\* raises: the call is outside every try of calculate_index_from_urls.
IndexCacheDirFails(t) ==
    /\ iLast' = IndexCall(t, "raised", NoneTriple, "")
    /\ UNCHANGED iCache

\* The cache file loads (lines 879-889).
IndexFromCache(t) ==
    /\ iCache[t].state = "stored"
    /\ iLast' = IndexCall(t, "hit", iCache[t].result, "")
    /\ UNCHANGED iCache

\* No cache file, or one that fails to load and is unlinked (lines 890-895);
\* the index is computed and, unless it is (None, None, None), saved
\* (lines 1035-1046).
IndexComputed(t, write) ==
    /\ iCache[t].state # "stored"
    /\ LET r == IndexOnMiss(t, iWorld)
       IN  /\ iLast' = IndexCall(t, "computed", r, IF r.none THEN "" ELSE write)
           /\ iCache' = [iCache EXCEPT ![t] = IF r.none THEN NoEntry ELSE Saved(r, write)]

\* One call of calculate_index_from_urls for the scene.
ComputeIndex ==
    /\ \E t \in IndexKinds :
          \/ IndexCacheDirFails(t)
          \/ IndexFromCache(t)
          \/ \E write \in {"ok", "fails", "partial"} : IndexComputed(t, write)
    /\ UNCHANGED iWorld
    /\ UNCHANGED <<procVars, memVars, sceneVars, keyVars, fetchVars, bboxVars, jobVars, detectVars, apiVars>>

NextIndex == ComputeIndex

SpecIndex == InitIndex /\ [][NextIndex]_vars

(***************************************************************************)
(* Claims about the index computation                                      *)
(***************************************************************************)
\* The bands the index kind is computed from.
RequiredBands(t) == IF t = "NDVI" THEN {"red", "nir"} ELSE {"red", "nir", "blue"}

BandNamed(w, name) == IF name = "red" THEN w.red ELSE IF name = "nir" THEN w.nir ELSE w.blue

\* A band without a read window, with a zero-sized read, or with a shape
\* other than that of another band of the index kind.
BandOff(t, w, name) ==
    \/ ~BandNamed(w, name).window
    \/ Len(BandNamed(w, name).cells) = 0
    \/ \E other \in RequiredBands(t) :
          Len(BandNamed(w, other).cells) # Len(BandNamed(w, name).cells)

\* Cells valid in every band of the index kind and with a defined value.
ValidCells(t, w) ==
    { i \in DOMAIN w.red.cells :
        /\ \A name \in RequiredBands(t) : BandNamed(w, name).cells[i] # NoData
        /\ Denom(t, w, i) # 0 }

RECURSIVE SumOver(_, _, _)
SumOver(t, w, S) ==
    IF S = {} THEN Rat(0, 1)
    ELSE LET i == CHOOSE x \in S : TRUE
         IN  RAdd(Rat(Numer(t, w, i), Denom(t, w, i)), SumOver(t, w, S \ {i}))

MeanOver(t, w, S) == LET x == SumOver(t, w, S) IN Rat(x.n, x.d * Cardinality(S))

\* C14: on a cache miss the result is (None, None, None) with no cache file
\* written when a band of the index kind has no window, a zero-sized read or
\* a differing shape, and no other band can cause that: with the bands of
\* the index kind in order and a valid cell among them, there is a result.
C14_OnlyRequiredBandsCauseNone ==
    iLast.outcome = "computed" =>
        /\ (\E name \in RequiredBands(iLast.t) : BandOff(iLast.t, iWorld, name))
              => iLast.result.none /\ iCache[iLast.t].state = "absent"
        /\ (/\ \A name \in RequiredBands(iLast.t) : ~BandOff(iLast.t, iWorld, name)
            /\ ValidCells(iLast.t, iWorld) # {})
              => ~iLast.result.none

\* C15: in a returned raster a cell is invalid when it is invalid in a band
\* of the index kind, valid when it is valid in all of them and the index
\* is defined there, and the mean is the mean of the valid cells.
C15_MaskIsUnionAndMeanOverValid ==
    iLast.outcome \in {"computed", "hit"} /\ ~iLast.result.none =>
        /\ \A i \in DOMAIN iLast.result.mask :
              /\ (\E name \in RequiredBands(iLast.t) :
                     BandNamed(iWorld, name).cells[i] = NoData) => iLast.result.mask[i]
              /\ i \in ValidCells(iLast.t, iWorld) => ~iLast.result.mask[i]
        /\ iLast.result.mean = MeanOver(iLast.t, iWorld, ValidCells(iLast.t, iWorld))

\* A window of four cells, one of them invalid in red only, gave a mask with
\* exactly that cell and a mean over the three others.
C15_Witness ==
    /\ iLast.outcome = "computed"
    /\ iLast.t = "NDVI"
    /\ ~iLast.result.none
    /\ Len(iWorld.red.cells) = 4
    /\ \E i \in 1..4 :
          /\ iWorld.red.cells[i] = NoData
          /\ \A j \in 1..4 : iLast.result.mask[j] <=> j = i
    /\ iLast.result.stats.valid_pixels = 3

\* Cells valid in every band of the index kind whose index is undefined.
UndefinedCells(t, w) ==
    { i \in DOMAIN w.red.cells :
        /\ \A name \in RequiredBands(t) : BandNamed(w, name).cells[i] # NoData
        /\ Denom(t, w, i) = 0 }

\* C16: a cell with an undefined index (zero divisor) is masked, the mean
\* is a number, and when no valid cell has a defined index the result is
\* (None, None, None).
C16_UndefinedCellsMasked ==
    iLast.outcome \in {"computed", "hit"} =>
        /\ ~iLast.result.none =>
              /\ \A i \in UndefinedCells(iLast.t, iWorld) : iLast.result.mask[i]
              /\ iLast.result.mean.d # 0
        /\ (/\ \A name \in RequiredBands(iLast.t) : ~BandOff(iLast.t, iWorld, name)
            /\ ValidCells(iLast.t, iWorld) = {})
              => iLast.result.none

\* An NDVI with a nir = red = 0 cell next to defined ones was computed.
C16_Witness ==
    /\ iLast.outcome = "computed"
    /\ iLast.t = "NDVI"
    /\ ~iLast.result.none
    /\ \E i \in DOMAIN iWorld.red.cells :
          /\ iWorld.red.cells[i] = 0 /\ iWorld.nir.cells[i] = 0
          /\ iLast.result.mask[i]

\* C17: no cache file holds a raster without a valid cell and no hit
\* returns one; a computation without a valid cell returns (None, None,
\* None) and leaves no cache file, so the next call for the same index of
\* the scene computes again.
C17_NoZeroValidEntry ==
    /\ \A t \in IndexKinds :
          iCache[t].state = "stored" =>
             ~iCache[t].result.none /\ Count(iCache[t].result.mask) > 0
    /\ iLast.outcome = "hit" => ~iLast.result.none /\ Count(iLast.result.mask) > 0
    /\ (/\ iLast.outcome = "computed"
        /\ \A name \in RequiredBands(iLast.t) : ~BandOff(iLast.t, iWorld, name)
        /\ ValidCells(iLast.t, iWorld) = {})
          => iLast.result.none /\ iCache[iLast.t].state = "absent"
    /\ iLast.afterNone => iLast.outcome # "hit"

\* A scene whose bands are in order but without any valid cell was computed
\* twice in a row.
C17_Witness ==
    /\ iLast.outcome = "computed"
    /\ iLast.afterNone
    /\ iLast.result.none
    /\ \A name \in RequiredBands(iLast.t) : ~BandOff(iLast.t, iWorld, name)
    /\ ValidCells(iLast.t, iWorld) = {}

\* C19 (index cache): a cache failure never makes the call fail, and the
\* call that met one returns what the computation without a cache returns.
C19_CacheFailureIsAMiss ==
    /\ iLast.outcome # "raised"
    /\ (iLast.outcome = "computed" /\ (iLast.before = "corrupt" \/ iLast.write # "ok"))
          => iLast.result = IndexOnMiss(iLast.t, iWorld)

(***************************************************************************)
(* Report jobs running side by side: create_report hands _run_report_job   *)
(* to the background task pool (api.py 896-912), each job calls            *)
(* search_hls_data and so _fetch_stac_records, whose cache functions       *)
(* (chipnik_monitor.py 665-677) take no lock.  A step is one OrderedDict   *)
(* operation.                                                              *)
(***************************************************************************)
Jobs == {"job1", "job2"}

InitJobs ==
    /\ IdleDetect
    /\ IdleApi
    /\ IdleFetch
    /\ IdleBbox
    /\ IdleIndex
    /\ IdleProc
    /\ IdleKeys
    /\ IdleScenes
    /\ memOrder \in {<<>>, WarmOrder}
    /\ memVal = [k \in Range(memOrder) |-> 1]
    /\ recency = memOrder
    /\ memOp = NoMemOp
    /\ jPc = [j \in Jobs |-> "get"]
    /\ jKey \in [Jobs -> ActiveKeys]
    /\ jOut = [j \in Jobs |-> "pending"]

JobsUnchanged == UNCHANGED <<jKey, recency, memOp, procVars, sceneVars, keyVars,
                             fetchVars, bboxVars, indexVars, detectVars, apiVars>>

\* cached = _STAC_RESULTS_CACHE.get(cache_key); if cached is None: return None
JobGet(j) ==
    /\ jPc[j] = "get"
    /\ jPc' = [jPc EXCEPT ![j] = IF jKey[j] \in Range(memOrder) THEN "promote" ELSE "query"]
    /\ UNCHANGED <<memOrder, memVal, jOut>>
    /\ JobsUnchanged

\* _STAC_RESULTS_CACHE.move_to_end(cache_key) of the lookup.  It raises
\* KeyError when the key is gone; `except Exception` of search_hls_data
\* (lines 805-808) turns that into an empty frame.
JobPromote(j) ==
    /\ jPc[j] = "promote"
    /\ jPc' = [jPc EXCEPT ![j] = "done"]
    /\ IF jKey[j] \in Range(memOrder)
       THEN /\ memOrder' = OD_MoveToEnd(memOrder, jKey[j])
            /\ jOut' = [jOut EXCEPT ![j] = "records"]
       ELSE /\ UNCHANGED memOrder
            /\ jOut' = [jOut EXCEPT ![j] = "empty"]
    /\ UNCHANGED memVal
    /\ JobsUnchanged

\* The catalog answers the search (lines 708-785).
JobQuery(j) ==
    /\ jPc[j] = "query"
    /\ jPc' = [jPc EXCEPT ![j] = "setitem"]
    /\ UNCHANGED <<memOrder, memVal, jOut>>
    /\ JobsUnchanged

\* _STAC_RESULTS_CACHE[cache_key] = tuple(...)
JobSetItem(j) ==
    /\ jPc[j] = "setitem"
    /\ memOrder' = OD_SetItem(memOrder, jKey[j])
    /\ memVal' = MemSetVal(memVal, memOrder', jKey[j], 1)
    /\ jPc' = [jPc EXCEPT ![j] = "move"]
    /\ UNCHANGED jOut
    /\ JobsUnchanged

\* _STAC_RESULTS_CACHE.move_to_end(cache_key) of the insertion
JobMoveToEnd(j) ==
    /\ jPc[j] = "move"
    /\ IF jKey[j] \in Range(memOrder)
       THEN /\ memOrder' = OD_MoveToEnd(memOrder, jKey[j])
            /\ jPc' = [jPc EXCEPT ![j] = "evict"]
            /\ UNCHANGED jOut
       ELSE /\ UNCHANGED memOrder
            /\ jPc' = [jPc EXCEPT ![j] = "done"]
            /\ jOut' = [jOut EXCEPT ![j] = "empty"]
    /\ UNCHANGED memVal
    /\ JobsUnchanged

\* if len(_STAC_RESULTS_CACHE) > _STAC_MEMORY_CACHE_MAX_ENTRIES: popitem(last=False)
JobEvict(j) ==
    /\ jPc[j] = "evict"
    /\ memOrder' = IF Len(memOrder) > STAC_MEMORY_CACHE_MAX_ENTRIES
                   THEN OD_PopItem(memOrder) ELSE memOrder
    /\ memVal' = [x \in Range(memOrder') |-> memVal[x]]
    /\ jPc' = [jPc EXCEPT ![j] = "done"]
    /\ jOut' = [jOut EXCEPT ![j] = "records"]
    /\ JobsUnchanged

NextJobs ==
    \E j \in Jobs :
        \/ JobGet(j) \/ JobPromote(j) \/ JobQuery(j)
        \/ JobSetItem(j) \/ JobMoveToEnd(j) \/ JobEvict(j)

SpecJobs == InitJobs /\ [][NextJobs]_vars

\* A job is between the first and the last cache operation of an insertion.
Inserting(j) == jPc[j] \in {"move", "evict"}

\* C18: with report jobs running side by side, no search comes back empty
\* because of what another job did to the cache, and the cache holds at
\* most STAC_MEMORY_CACHE_MAX_ENTRIES entries whenever no insertion is under way.
C18_CacheAccessExclusive ==
    /\ \A j \in Jobs : jOut[j] # "empty"
    /\ (\A j \in Jobs : ~Inserting(j)) => Len(memOrder) <= STAC_MEMORY_CACHE_MAX_ENTRIES

\* ======================================================================
\* Anomaly detection: anomalies.py.  Days are absolute day numbers (day 1
\* is 1 January of year 0, every year has 365 days); NDVI values and
\* thresholds are in thousandths.
\* ======================================================================

VOLATILITY_WINDOW == 45
VOLATILITY_MIN_PERIODS == 10
EARLY_SENESCENCE_THRESHOLD == 400
EARLY_SENESCENCE_LOOKBACK_DAYS == 30
EARLY_SENESCENCE_LEAD_DAYS == 14
LATE_GREENING_THRESHOLD == 300
LATE_GREENING_DELAY_DAYS == 14
LATE_GREENING_CONFIRM_WINDOW == 4
LATE_GREENING_CONFIRM_COUNT == 3
NDVI_DROP_THRESHOLD == 100
RECENT_WINDOW_DAYS == 60
INTERPOLATE_LIMIT == 7
DROP_MAX_GAP_DAYS == 30

\* A row whose ndvi is NaN: _normalize_ndvi_frame drops it.
Missing == -1

\* detectedAt of a finding that names no date.
NoDate == 0

YearOf(d) == (d - 1) \div 365

DayOfYear(d) == ((d - 1) % 365) + 1

MinOf(S) == CHOOSE x \in S : \A y \in S : x <= y

MaxOf(S) == CHOOSE x \in S : \A y \in S : x >= y

\* The members of S in increasing order.
RECURSIVE SortedDays(_)
SortedDays(S) ==
    IF S = {} THEN <<>>
    ELSE <<MinOf(S)>> \o SortedDays(S \ {MinOf(S)})

\* The values value[d], d in S, in increasing order (equal values kept).
RECURSIVE SortedValues(_, _)
SortedValues(value, S) ==
    IF S = {} THEN <<>>
    ELSE LET d == CHOOSE x \in S : \A y \in S : value[x] <= value[y]
         IN  <<value[d]>> \o SortedValues(value, S \ {d})

\* The k-th smallest (k from 1) of the values value[d], d in S.
KthValue(value, S, k) ==
    CHOOSE v \in {value[d] : d \in S} :
        /\ Cardinality({d \in S : value[d] < v}) < k
        /\ Cardinality({d \in S : value[d] <= v}) >= k

\* 100 times np.nanpercentile(values, q) of the values value[d], d in S:
\* linear between the two neighbours of position q/100 * (n - 1) in the
\* sorted values.
Percentile100(value, S, q) ==
    LET n == Cardinality(S)
        k == (q * (n - 1)) \div 100
        r == (q * (n - 1)) % 100
        lo == KthValue(value, S, k + 1)
        hi == KthValue(value, S, IF k + 2 <= n THEN k + 2 ELSE n)
    IN  100 * lo + r * (hi - lo)

\* int(np.median(values)) of a sorted sequence of day numbers.
MedianInt(sorted) ==
    LET n == Len(sorted)
    IN  IF n % 2 = 1 THEN sorted[(n + 1) \div 2]
        ELSE (sorted[n \div 2] + sorted[(n \div 2) + 1]) \div 2

\* _base_result
base_result(key) ==
    [key |-> key, triggered |-> FALSE, severity |-> "info",
     detectedAt |-> NoDate, reason |-> "", details |-> <<>>]

\* A detector that returns without writing a reason.
WithReason_Dropped(result, reason) == result

\* result["details"]["reason"] = reason
WithReason(result, reason) == [result EXCEPT !.reason = reason]

\* result["details"].update(values)
WithDetails(result, values) == [result EXCEPT !.details = values]

\* The severity stays as _base_result set it.
Trigger_NoSeverity(result) == [result EXCEPT !.triggered = TRUE]

\* result["triggered"] = True; result["severity"] = "warning"
Trigger(result) ==
    [result EXCEPT !.triggered = TRUE, !.severity = "warning"]

\* result["detectedAt"] = _isoformat(day)
DetectedAt(result, day) == [result EXCEPT !.detectedAt = day]

\* _normalize_ndvi_frame: the days that keep a row.
ObservedDays(obs) == {d \in DOMAIN obs : obs[d] # Missing}

PrevObs(obs, d) == MaxOf({o \in ObservedDays(obs) : o <= d})

NextObs(obs, d) == MinOf({o \in ObservedDays(obs) : o >= d})

\* _build_daily_series: the calendar days between the first and the last
\* observation.
SpanDays(obs) ==
    IF ObservedDays(obs) = {} THEN {}
    ELSE MinOf(ObservedDays(obs)) .. MaxOf(ObservedDays(obs))

\* interpolate(limit=7, limit_direction="both"): a day has a value when it
\* is within 7 days after an observation or within 7 days before one.
DailyDays(obs) ==
    {d \in SpanDays(obs) :
        \/ d - PrevObs(obs, d) <= INTERPOLATE_LIMIT
        \/ NextObs(obs, d) - d <= INTERPOLATE_LIMIT}

\* The daily value as a fraction num/den: linear between the neighbouring
\* observations.
DailyNum(obs, d) ==
    LET p == PrevObs(obs, d)
        n == NextObs(obs, d)
    IN  IF p = n THEN obs[p]
        ELSE obs[p] * (n - d) + obs[n] * (d - p)

DailyDen(obs, d) ==
    LET p == PrevObs(obs, d)
        n == NextObs(obs, d)
    IN  IF p = n THEN 1 ELSE n - p

\* _build_daily_series: the dense daily series, each value a fraction
\* <<num, den>>.
build_daily_series(obs) ==
    [d \in DailyDays(obs) |-> <<DailyNum(obs, d), DailyDen(obs, d)>>]

\* The daily value of day d is under the threshold.
DailyBelow(daily, d, threshold) == daily[d][1] < threshold * daily[d][2]

\* rolling(window=45, min_periods=10): the days whose window of 45
\* calendar days holds at least 10 daily values.
RolledDays(daily) ==
    LET days == DOMAIN daily
    IN  {d \in MinOf(days)..MaxOf(days) :
            Cardinality({e \in (d - VOLATILITY_WINDOW + 1) .. d : e \in days})
                >= VOLATILITY_MIN_PERIODS}

\* The rolling standard deviation of day d, in a unit small enough to make
\* it a whole number: the same on every day, growing or shrinking from day
\* to day, or raised on the first rolled day only.
StdShapes == {"flat", "rising", "falling", "early"}

StdAt(shape, d, firstDay, lastDay) ==
    CASE shape = "flat" -> 0
      [] shape = "rising" -> d - firstDay
      [] shape = "falling" -> lastDay - d
      [] shape = "early" -> IF d = firstDay THEN 1 ELSE 0

\* The recency gate is not applied.
Recent_Always(latest, day) == TRUE

\* (latest - day).days <= _RECENT_WINDOW_DAYS
Recent(latest, day) == latest - day <= RECENT_WINDOW_DAYS

\* _detect_volatility
detect_volatility(daily, shape) ==
    LET result == base_result("ndvi_volatility")
        days == DOMAIN daily
        rolled == RolledDays(daily)
        firstDay == MinOf(rolled)
        lastDay == MaxOf(rolled)
        std == [d \in rolled |-> StdAt(shape, d, firstDay, lastDay)]
        threshold == Percentile100(std, rolled, 95)
        flagged == {d \in rolled : 100 * std[d] >= threshold}
        detected_at == MaxOf(flagged)
        values == [windowDays |-> VOLATILITY_WINDOW,
                   threshold |-> threshold,
                   latestRollingStd |-> std[lastDay],
                   flaggedCount |-> Cardinality(flagged)]
    IN  IF Cardinality(days) < VOLATILITY_MIN_PERIODS
        THEN WithReason(result, "insufficient_history")
        ELSE IF rolled = {}
        THEN WithReason(result, "no_variability")
        ELSE IF flagged = {}
        THEN WithDetails(result, values)
        ELSE IF Recent(MaxOf(days), detected_at)
        THEN WithDetails(Trigger(DetectedAt(result, detected_at)), values)
        ELSE WithDetails(DetectedAt(result, detected_at), values)

YearsOf(daily) == {YearOf(d) : d \in DOMAIN daily}

DaysInYear(daily, y) == {d \in DOMAIN daily : YearOf(d) = y}

\* _detect_early_senescence, the loop body: the daily value is under the
\* threshold and an earlier day of the same year, at most 30 days back, was
\* at or above it.
IsSenescenceDrop(daily, y, d) ==
    /\ DailyBelow(daily, d, EARLY_SENESCENCE_THRESHOLD)
    /\ \E e \in DaysInYear(daily, y) :
          /\ d - EARLY_SENESCENCE_LOOKBACK_DAYS <= e
          /\ e < d
          /\ ~DailyBelow(daily, e, EARLY_SENESCENCE_THRESHOLD)

SenescenceDrops(daily, y) ==
    {d \in DaysInYear(daily, y) : IsSenescenceDrop(daily, y, d)}

SenescenceYears(daily) == {y \in YearsOf(daily) : SenescenceDrops(daily, y) # {}}

\* chart_df["year"].max(): the latest of the years that have a date.
CurrentYear(years) == MaxOf(years)

\* _detect_early_senescence
detect_early_senescence(daily) ==
    LET result == base_result("early_senescence")
        years == SenescenceYears(daily)
        drop_date == [y \in years |-> MinOf(SenescenceDrops(daily, y))]
        doy == [y \in years |-> DayOfYear(drop_date[y])]
        current_year == CurrentYear(years)
        baseline == {y \in years : y < current_year}
        current_doy == doy[current_year]
        baseline_doy == MedianInt(SortedValues(doy, baseline))
        days_early == baseline_doy - current_doy
        values == [baselineDayOfYear |-> baseline_doy,
                   currentDayOfYear |-> current_doy,
                   daysEarly |-> days_early,
                   threshold |-> EARLY_SENESCENCE_THRESHOLD]
        found == DetectedAt(WithDetails(result, values),
                            drop_date[current_year])
    IN  IF DOMAIN daily = {}
        THEN WithReason(result, "insufficient_history")
        ELSE IF years = {}
        THEN WithReason(result, "no_drop_found")
        ELSE IF current_year \notin years \/ baseline = {}
        THEN WithReason(result, "no_baseline")
        ELSE IF days_early >= EARLY_SENESCENCE_LEAD_DAYS
        THEN Trigger(found)
        ELSE found

\* _detect_late_greenup, the rolling confirmation: the days whose last 4
\* daily values of the year hold at least 3 at or above the threshold.
GreenupCandidates(daily, y) ==
    LET days == SortedDays(DaysInYear(daily, y))
        above(i) == ~DailyBelow(daily, days[i], LATE_GREENING_THRESHOLD)
        count(i) == Cardinality(
            {j \in (i - LATE_GREENING_CONFIRM_WINDOW + 1) .. i : above(j)})
    IN  {days[i] : i \in {k \in LATE_GREENING_CONFIRM_WINDOW .. Len(days) :
                             count(k) >= LATE_GREENING_CONFIRM_COUNT}}

GreenupYears(daily) == {y \in YearsOf(daily) : GreenupCandidates(daily, y) # {}}

\* _detect_late_greenup
detect_late_greenup(daily) ==
    LET result == base_result("late_greenup")
        years == GreenupYears(daily)
        greenup_date == [y \in years |-> MinOf(GreenupCandidates(daily, y))]
        doy == [y \in years |-> DayOfYear(greenup_date[y])]
        current_year == CurrentYear(years)
        baseline == {y \in years : y < current_year}
        baseline_doy == MedianInt(SortedValues(doy, baseline))
        latest_observed == MaxOf(DOMAIN daily)
        delay_days == doy[current_year] - baseline_doy
        overdue_days == DayOfYear(latest_observed) - baseline_doy
        values == [baselineDayOfYear |-> baseline_doy,
                   currentDayOfYear |-> doy[current_year],
                   delayDays |-> delay_days,
                   threshold |-> LATE_GREENING_THRESHOLD]
        overdue == [baselineDayOfYear |-> baseline_doy,
                    currentDayOfYear |-> NoDate,
                    delayDays |-> overdue_days,
                    threshold |-> LATE_GREENING_THRESHOLD,
                    status |-> "not_observed"]
        found == DetectedAt(WithDetails(result, values),
                            greenup_date[current_year])
    IN  IF DOMAIN daily = {}
        THEN WithReason(result, "insufficient_history")
        ELSE IF years = {}
        THEN WithReason(result, "no_greenup_detected")
        ELSE IF baseline = {}
        THEN WithReason(result, "no_baseline")
        ELSE IF current_year \in years
        THEN IF delay_days >= LATE_GREENING_DELAY_DAYS
             THEN Trigger(found)
             ELSE found
        ELSE IF overdue_days >= LATE_GREENING_DELAY_DAYS
        THEN Trigger(DetectedAt(WithDetails(result, overdue),
                                latest_observed))
        ELSE WithDetails(result, overdue)

\* The columns _normalize_weather keeps and the detector reads.
WeatherColumns == {"temperature", "wind_speed", "cloudcover", "clarity"}

\* How the one column of the weather frame runs over its days: every day
\* higher than the day before, or lower.
WeatherShapes == {"rising", "falling"}

\* The value the weather frame holds for day d.
WeatherAt(weather, d) ==
    IF weather.shape = "rising" THEN d - weather.first + 1
    ELSE weather.last - d + 1

\* The days the weather frame has a row for.
WeatherDays(weather) == weather.first .. weather.last

\* obs.merge(weather_df, how="left", on="date"): a row finds its weather
\* when its timestamp equals a normalized weather date.
Merged(stamp, weather, d) ==
    stamp = "midnight" /\ d \in WeatherDays(weather)

\* 100 times the 10th and the 90th percentile of the weather column.
WeatherPercentiles(weather) ==
    LET value == [e \in WeatherDays(weather) |-> WeatherAt(weather, e)]
    IN  [low |-> Percentile100(value, WeatherDays(weather), 10),
         high |-> Percentile100(value, WeatherDays(weather), 90)]

\* The is_extreme tests of _detect_weatherless_drop.
IsExtreme(stamp, weather, percentiles, d) ==
    LET value == 100 * WeatherAt(weather, d)
    IN  /\ Merged(stamp, weather, d)
        /\ CASE weather.column = "temperature" ->
                    value <= percentiles.low \/ value >= percentiles.high
             [] weather.column = "wind_speed" -> value >= percentiles.high
             [] weather.column = "cloudcover" -> value >= percentiles.high
             [] weather.column = "clarity" -> value <= percentiles.low

\* not (row["delta"] >= -_NDVI_DROP_THRESHOLD); whether the difference of
\* two values that are 0.1 apart computes as more than 0.1 depends on their
\* binary representation.
FallsBy(delta, tie) ==
    \/ delta < 0 - NDVI_DROP_THRESHOLD
    \/ delta = 0 - NDVI_DROP_THRESHOLD /\ tie

\* _detect_weatherless_drop, the first two tests of the loop body.
IsDropCandidate(obs, tie, d) ==
    /\ FallsBy(obs[d] - obs[PrevObs(obs, d - 1)], tie)
    /\ ~(d - PrevObs(obs, d - 1) > DROP_MAX_GAP_DAYS)

\* _detect_weatherless_drop
detect_weatherless_drop(obs, stamp, weather, tie) ==
    LET result == base_result("weatherless_drop")
        observed == ObservedDays(obs)
        percentiles == WeatherPercentiles(weather)
        flagged == {d \in observed \ {MinOf(observed)} :
                       /\ IsDropCandidate(obs, tie, d)
                       /\ ~IsExtreme(stamp, weather, percentiles, d)}
        event == MaxOf(flagged)
        values == [dropMagnitude |-> obs[PrevObs(obs, event - 1)] - obs[event],
                   currentNdvi |-> obs[event],
                   previousNdvi |-> obs[PrevObs(obs, event - 1)],
                   threshold |-> NDVI_DROP_THRESHOLD]
        found == WithDetails(DetectedAt(result, event), values)
    IN  IF Cardinality(observed) < 2
        THEN WithReason(result, "insufficient_history")
        ELSE IF WeatherDays(weather) = {}
        THEN WithReason(result, "missing_weather")
        ELSE IF flagged = {}
        THEN WithReason(result, "no_drop_detected")
        ELSE IF Recent(MaxOf(observed), event)
        THEN Trigger(found)
        ELSE found

\* The days on which a scene may have been observed; they straddle the end
\* of year 0 (day 365), and the gaps between them (6, 8, 4, 7, 22 days and
\* their sums) make interpolated values never equal to a threshold.
DetectDays == {350, 356, 364, 368, 375, 397}

NdviLevels == {205, 405, 505}

\* Weather frames with one row for every day from the first candidate day
\* to the last.
WeatherFrames(days) ==
    {NoWeather} \cup
    {[column |-> c, shape |-> s, first |-> MinOf(days), last |-> MaxOf(days)] :
        c \in WeatherColumns, s \in WeatherShapes}

\* The other parts of the program are at rest.
DetectAlone ==
    /\ IdleProc
    /\ IdleMem
    /\ IdleScenes
    /\ IdleKeys
    /\ IdleFetch
    /\ IdleBbox
    /\ IdleIndex
    /\ IdleJobs
    /\ IdleApi
    /\ dPc = "input"
    /\ dFindings = <<>>
    /\ dDaily = {}

InitDetect ==
    /\ DetectAlone
    /\ dObs \in [DetectDays -> NdviLevels \cup {Missing}]
    /\ dStamp = "midnight"
    /\ dWeather \in {NoWeather,
                     [column |-> "wind_speed", shape |-> "rising",
                      first |-> MinOf(DetectDays),
                      last |-> MaxOf(DetectDays)]}
    /\ dStd = "rising"
    /\ dTie = FALSE

\* detect_anomalies
detect_anomalies ==
    /\ dPc = "input"
    /\ LET daily_series == build_daily_series(dObs)
       IN  /\ dFindings' =
                << detect_volatility(daily_series, dStd),
                   detect_early_senescence(daily_series),
                   detect_late_greenup(daily_series),
                   detect_weatherless_drop(dObs, dStamp, dWeather, dTie) >>
           /\ dDaily' = DOMAIN daily_series
    /\ dPc' = "detected"
    /\ UNCHANGED <<dObs, dStamp, dWeather, dStd, dTie>>
    /\ UNCHANGED <<procVars, memVars, sceneVars, keyVars, fetchVars,
                   bboxVars, indexVars, jobVars, apiVars>>

NextDetect == detect_anomalies

SpecDetect == InitDetect /\ [][NextDetect]_vars

DetectorKeys ==
    <<"ndvi_volatility", "early_senescence", "late_greenup",
      "weatherless_drop">>

NonEmptyDetails(finding) ==
    finding.reason # "" \/ DOMAIN finding.details # {}

\* C20: for well-formed input (an empty NDVI series and absent weather
\* included) the detection returns exactly four findings, in the order
\* ndvi_volatility, early_senescence, late_greenup, weatherless_drop, and
\* the details of each of them are non-empty.
C20_FourFindingsInOrder ==
    dPc = "detected" =>
        /\ Len(dFindings) = 4
        /\ \A i \in 1..4 :
              /\ dFindings[i].key = DetectorKeys[i]
              /\ NonEmptyDetails(dFindings[i])

\* An empty NDVI series with absent weather has been through the detection
\* and every detector reported that the history is insufficient.
C20_Witness ==
    /\ dPc = "detected"
    /\ ObservedDays(dObs) = {}
    /\ dWeather = NoWeather
    /\ Len(dFindings) = 4
    /\ \A i \in 1..4 : dFindings[i].reason = "insufficient_history"

\* Two observations with no observation between them.
Successive(obs, p, n) ==
    /\ p \in ObservedDays(obs)
    /\ n \in ObservedDays(obs)
    /\ p < n
    /\ \A o \in ObservedDays(obs) : ~(p < o /\ o < n)

\* C24: in the dense daily series, a run of at most 7 missing days between
\* two observations is filled completely and a run of more than 7 missing
\* days is left missing completely.
C24_OnlyShortGapsFilled ==
    dPc = "detected" =>
        \A p \in DOMAIN dObs, n \in DOMAIN dObs :
            Successive(dObs, p, n) =>
                IF n - p - 1 <= INTERPOLATE_LIMIT
                THEN (p + 1) .. (n - 1) \subseteq dDaily
                ELSE (p + 1) .. (n - 1) \cap dDaily = {}

\* The days of the drop scans: gaps of 6, 24 and 17 days, of exactly 30
\* days (350 to 380) and of more than 30 (356 to 397).
DropDays == {350, 356, 380, 397}

StampKinds == {"midnight", "midday"}

InitDrops ==
    /\ DetectAlone
    /\ dObs \in [DropDays -> NdviLevels \cup {Missing}]
    /\ dStamp \in StampKinds
    /\ dWeather \in WeatherFrames(DropDays)
    /\ dStd = "flat"
    /\ dTie \in BOOLEAN

SpecDrops == InitDrops /\ [][NextDetect]_vars

\* The weatherless_drop finding of a finished detection.
DropFinding == dFindings[4]

\* A variable of the weather frame is extreme on calendar day d.
ExtremeOnDate(d) ==
    IsExtreme("midnight", dWeather, WeatherPercentiles(dWeather), d)

\* C23: a drop is reported as unexplained only if no weather variable
\* recorded for the calendar date of the drop is extreme, whatever the time
\* of day of the observation; a drop with no extreme variable that is the
\* latest one triggers when it is within 60 days of the latest sample.
C23_ExtremeWeatherExplainsDrop ==
    (dPc = "detected" /\ DropFinding.detectedAt # NoDate) =>
        /\ ~ExtremeOnDate(DropFinding.detectedAt)
        /\ DropFinding.triggered <=>
              MaxOf(ObservedDays(dObs)) - DropFinding.detectedAt
                  <= RECENT_WINDOW_DAYS

\* Day d ends a pair of successive observations at most 30 days apart
\* whose value decreases by at least 0.1.
DropOfAtLeastThreshold(d) ==
    \E p \in DOMAIN dObs :
        /\ Successive(dObs, p, d)
        /\ d - p <= DROP_MAX_GAP_DAYS
        /\ dObs[p] - dObs[d] >= NDVI_DROP_THRESHOLD

\* C25: a pair of successive observations is a drop candidate exactly when
\* the two are at most 30 days apart and the value decreases by at least
\* 0.1, a decrease of exactly 0.1 included: with weather present and never
\* extreme on an observed day, the finding names the latest such pair, and
\* reports no drop exactly when there is none.
C25_DropCandidateInclusive ==
    (/\ dPc = "detected"
     /\ Cardinality(ObservedDays(dObs)) >= 2
     /\ dWeather # NoWeather
     /\ \A d \in ObservedDays(dObs) : ~ExtremeOnDate(d)) =>
        LET drops == {d \in ObservedDays(dObs) : DropOfAtLeastThreshold(d)}
        IN  IF drops = {} THEN DropFinding.reason = "no_drop_detected"
            ELSE DropFinding.detectedAt = MaxOf(drops)

\* ---- Series over three years ----

MaxYears == 3

\* How many days later than the earliest season a year's season runs.
SeasonOffsets == {0, 13, 14, 27}

\* A year with a season: low on day 100 + o, high from day 104 + o to day
\* 200 + o, low again on day 204 + o.  The daily values between a low and a
\* high observation (280, 355, 430) never equal a threshold.
Season(o) ==
    [k \in {100 + o, 104 + o, 108 + o, 200 + o, 204 + o} |->
        IF k \in {100 + o, 204 + o} THEN 205 ELSE 505]

\* A year whose only row has no value, and a year with one low observation.
QuietYear == [k \in {150} |-> Missing]

LowYear == [k \in {150} |-> 205]

YearPatterns == {QuietYear, LowYear} \cup {Season(o) : o \in SeasonOffsets}

\* The frame that holds year y's rows of pattern[y] for every year.
ObsOfYears(pattern) ==
    [d \in UNION {{365 * y + k : k \in DOMAIN pattern[y]} :
                     y \in DOMAIN pattern} |->
        pattern[YearOf(d)][DayOfYear(d)]]

InitSeasons ==
    /\ DetectAlone
    /\ \E pattern \in [0 .. (MaxYears - 1) -> YearPatterns] :
          /\ dObs = ObsOfYears(pattern)
          /\ dWeather \in
                {NoWeather,
                 [column |-> "wind_speed", shape |-> "rising",
                  first |-> 365 * (MaxYears - 1) + 190,
                  last |-> 365 * (MaxYears - 1) + 230]}
    /\ dStamp = "midnight"
    /\ dStd = "early"
    /\ dTie = FALSE

SpecSeasons == InitSeasons /\ [][NextDetect]_vars

\* The findings of a finished detection, by detector.
VolatilityFinding == dFindings[1]

SenescenceFinding == dFindings[2]

GreenupFinding == dFindings[3]

\* The latest year of the series.
LatestYear == MaxOf({YearOf(d) : d \in dDaily})

\* Twice the median of a sorted sequence of day numbers.
TwiceMedian(sorted) ==
    LET n == Len(sorted)
    IN  IF n % 2 = 1 THEN 2 * sorted[(n + 1) \div 2]
        ELSE sorted[n \div 2] + sorted[(n \div 2) + 1]

\* The day of the year of the drop date of year y.
DropDayOfYear(y) ==
    DayOfYear(MinOf(SenescenceDrops(build_daily_series(dObs), y)))

\* The earlier years that have a drop date.
PriorDropYears ==
    {y \in SenescenceYears(build_daily_series(dObs)) : y < LatestYear}

\* C21: early_senescence reports daysEarly = the median day of the year of
\* the prior years' drop dates minus the day of the year of the drop of the
\* current year, the latest year of the series, and is triggered exactly
\* when daysEarly >= 14.
C21_DaysEarlyAgainstLatestYear ==
    (dPc = "detected" /\ "daysEarly" \in DOMAIN SenescenceFinding.details) =>
        /\ LatestYear \in SenescenceYears(build_daily_series(dObs))
        /\ PriorDropYears # {}
        /\ 2 * SenescenceFinding.details.daysEarly =
              TwiceMedian(SortedValues([y \in PriorDropYears |->
                                           DropDayOfYear(y)],
                                       PriorDropYears))
                  - 2 * DropDayOfYear(LatestYear)
        /\ SenescenceFinding.triggered <=>
              SenescenceFinding.details.daysEarly
                  >= EARLY_SENESCENCE_LEAD_DAYS

\* The day of the year of the greenup date of year y.
GreenupDayOfYear(y) ==
    DayOfYear(MinOf(GreenupCandidates(build_daily_series(dObs), y)))

\* The earlier years that have a greenup date.
PriorGreenupYears ==
    {y \in GreenupYears(build_daily_series(dObs)) : y < LatestYear}

\* C22: when prior years have greenup dates and the latest year of the
\* series has none yet, late_greenup reports the not-observed state with the
\* delay of the latest observed date against the median of the prior years,
\* and is triggered exactly when that delay is at least 14 days.
C22_OverdueGreenupReported ==
    (/\ dPc = "detected"
     /\ dDaily # {}
     /\ PriorGreenupYears # {}
     /\ LatestYear \notin GreenupYears(build_daily_series(dObs))) =>
        /\ "status" \in DOMAIN GreenupFinding.details
        /\ GreenupFinding.details.status = "not_observed"
        /\ 2 * GreenupFinding.details.delayDays =
              2 * DayOfYear(MaxOf(ObservedDays(dObs)))
                  - TwiceMedian(SortedValues([y \in PriorGreenupYears |->
                                                 GreenupDayOfYear(y)],
                                             PriorGreenupYears))
        /\ GreenupFinding.triggered <=>
              GreenupFinding.details.delayDays >= LATE_GREENING_DELAY_DAYS

\* C27: in every finding, severity is "warning" if and only if triggered is
\* true and "info" otherwise, and every triggered finding has a detectedAt.
C27_SeverityFollowsTriggered ==
    dPc = "detected" =>
        \A i \in 1 .. Len(dFindings) :
            /\ dFindings[i].severity =
                  (IF dFindings[i].triggered THEN "warning" ELSE "info")
            /\ dFindings[i].triggered => dFindings[i].detectedAt # NoDate

\* A detection has returned findings that are triggered, with severity
\* "warning" and a date, next to findings that are not.
C27_Witness ==
    /\ dPc = "detected"
    /\ \E i \in 1 .. 4, j \in 1 .. 4 :
          /\ dFindings[i].triggered
          /\ dFindings[i].severity = "warning"
          /\ dFindings[i].detectedAt # NoDate
          /\ ~dFindings[j].triggered
    /\ SenescenceFinding.triggered
    /\ GreenupFinding.detectedAt # NoDate
    /\ ~GreenupFinding.triggered

\* ---- Series for the volatility detector ----

\* Candidate days of one year: a dense start, a second group two months
\* later and a late single observation.
VolDays == {100, 105, 110, 170, 175, 240}

InitVolatility ==
    /\ DetectAlone
    /\ dObs \in [VolDays -> {205, Missing}]
    /\ dStamp = "midnight"
    /\ dWeather = NoWeather
    /\ dStd \in StdShapes
    /\ dTie = FALSE

SpecVolatility == InitVolatility /\ [][NextDetect]_vars

\* The most recent of the days whose rolling standard deviation is at or
\* above the 95th percentile of all rolling standard deviations, NoDate when
\* no day has a rolling standard deviation.
VolLatestQualifying ==
    LET rolled == RolledDays(build_daily_series(dObs))
        firstDay == MinOf(rolled)
        lastDay == MaxOf(rolled)
        std == [d \in rolled |-> StdAt(dStd, d, firstDay, lastDay)]
        p95 == Percentile100(std, rolled, 95)
    IN  IF rolled = {} THEN NoDate
        ELSE MaxOf({d \in rolled : 100 * std[d] >= p95})

\* C26: ndvi_volatility is triggered exactly when the most recent day whose
\* rolling standard deviation is at or above the 95th percentile of all
\* rolling standard deviations lies within 60 days of the latest observation;
\* with fewer than 10 daily values it is not triggered and its reason is
\* insufficient_history.
C26_VolatilityRecencyGate ==
    dPc = "detected" =>
        IF Cardinality(dDaily) < VOLATILITY_MIN_PERIODS
        THEN /\ ~VolatilityFinding.triggered
             /\ VolatilityFinding.reason = "insufficient_history"
        ELSE /\ VolatilityFinding.reason # "insufficient_history"
             /\ VolatilityFinding.triggered <=>
                   /\ VolLatestQualifying # NoDate
                   /\ MaxOf(ObservedDays(dObs)) - VolLatestQualifying
                         <= RECENT_WINDOW_DAYS
             /\ VolatilityFinding.triggered =>
                   VolatilityFinding.detectedAt = VolLatestQualifying

\* A series of more than 60 days has a triggered volatility finding whose
\* percentile singles out some of the rolled days.
C26_Witness ==
    /\ dPc = "detected"
    /\ VolatilityFinding.triggered
    /\ MaxOf(ObservedDays(dObs)) - MinOf(ObservedDays(dObs))
          > RECENT_WINDOW_DAYS
    /\ 5 * VolatilityFinding.details.flaggedCount < Cardinality(dDaily)

\* ======================================================================
\* Report operations: api.py.  create_report registers an operation and
\* queues _run_report_job, which runs in the background.
\* ======================================================================

MaxOps == 2

\* The operation ids uuid4 hands out, each to one create_report call.
OpIds == 1 .. MaxOps

\* An id _OPERATIONS has no entry for.
Absent == [status |-> "absent", result |-> None, error |-> None]

\* The dict _generate_report returns, and str(exc) of what it may raise.
Report == "history and forecast"

ErrorMessages == {"", "No scenes found"}

\* _init_operation: the state of a new operation.
init_operation == [status |-> "processing", result |-> None, error |-> None]

\* A status argument is not written.
update_operation_KeepStatus(table, op_id, status, result, error) ==
    IF table[op_id] = Absent THEN table
    ELSE [table EXCEPT ![op_id] =
             [status |-> @.status,
              result |-> IF result # None THEN result ELSE @.result,
              error |-> IF error # None THEN error ELSE @.error]]

\* _update_operation: nothing for an unknown id; otherwise the arguments
\* that are given are written.
update_operation(table, op_id, status, result, error) ==
    IF table[op_id] = Absent THEN table
    ELSE [table EXCEPT ![op_id] =
             [status |-> IF status # None THEN status ELSE @.status,
              result |-> IF result # None THEN result ELSE @.result,
              error |-> IF error # None THEN error ELSE @.error]]

\* _OPERATIONS.pop(operation_id, None)
pop_operation(table, op_id) == [table EXCEPT ![op_id] = Absent]

\* _persist_report_state: update_one(..., upsert=True) writes the status, or
\* the call raises and the collection is as before.
persist_report_state(docs, op_id, status, ok) ==
    IF ok THEN [docs EXCEPT ![op_id] = status] ELSE docs

ReportsAlone ==
    /\ IdleProc
    /\ IdleMem
    /\ IdleScenes
    /\ IdleKeys
    /\ IdleFetch
    /\ IdleBbox
    /\ IdleIndex
    /\ IdleJobs
    /\ IdleDetect
    /\ mlIn = NoPrediction
    /\ mlPc = "idle"
    /\ mlOut = NotPredicted
    /\ mlForecast = NoForecast

InitReports ==
    /\ ReportsAlone
    /\ opTable = [id \in OpIds |-> Absent]
    /\ opDocs = [id \in OpIds |-> "absent"]
    /\ opPc = [id \in OpIds |-> "new"]

ReportsUnchanged ==
    /\ UNCHANGED <<mlIn, mlPc, mlOut, mlForecast>>
    /\ UNCHANGED <<procVars, memVars, sceneVars, keyVars, fetchVars,
                   bboxVars, indexVars, jobVars, detectVars>>

\* create_report up to _init_operation: the operation is registered, or
\* _init_operation raises before it writes and the request is answered 500.
create_report_init(op_id, ok) ==
    /\ opPc[op_id] = "new"
    /\ IF ok
       THEN /\ opTable' = [opTable EXCEPT ![op_id] = init_operation]
            /\ opPc' = [opPc EXCEPT ![op_id] = "persisting"]
       ELSE /\ UNCHANGED opTable
            /\ opPc' = [opPc EXCEPT ![op_id] = "rejected"]
    /\ UNCHANGED opDocs
    /\ ReportsUnchanged

\* create_report from _persist_report_state on: the job is queued and the
\* request accepted, or the operation is removed and the request answered 500.
create_report_persist(op_id, ok) ==
    /\ opPc[op_id] = "persisting"
    /\ opDocs' = persist_report_state(opDocs, op_id, "processing", ok)
    /\ IF ok
       THEN /\ opPc' = [opPc EXCEPT ![op_id] = "queued"]
            /\ UNCHANGED opTable
       ELSE /\ opTable' = pop_operation(opTable, op_id)
            /\ opPc' = [opPc EXCEPT ![op_id] = "rejected"]
    /\ ReportsUnchanged

\* _run_report_job, its first statement.
run_report_job_start(op_id) ==
    /\ opPc[op_id] = "queued"
    /\ opTable' = update_operation(opTable, op_id, "processing", None, None)
    /\ opPc' = [opPc EXCEPT ![op_id] = "generating"]
    /\ UNCHANGED opDocs
    /\ ReportsUnchanged

\* _run_report_job: _generate_report returned a report.
run_report_job_ready(op_id) ==
    /\ opPc[op_id] = "generating"
    /\ opTable' = update_operation(opTable, op_id, "ready", Report, None)
    /\ opPc' = [opPc EXCEPT ![op_id] = "persist_ready"]
    /\ UNCHANGED opDocs
    /\ ReportsUnchanged

\* _run_report_job: _generate_report raised.
run_report_job_error(op_id, error_message) ==
    /\ opPc[op_id] = "generating"
    /\ opTable' = update_operation(opTable, op_id, "error", None, error_message)
    /\ opPc' = [opPc EXCEPT ![op_id] = "persist_error"]
    /\ UNCHANGED opDocs
    /\ ReportsUnchanged

\* _run_report_job: the final _persist_report_state, whose failure is logged.
run_report_job_persist(op_id, ok) ==
    /\ opPc[op_id] \in {"persist_ready", "persist_error"}
    /\ opDocs' = persist_report_state(
                     opDocs, op_id,
                     IF opPc[op_id] = "persist_ready" THEN "ready" ELSE "error",
                     ok)
    /\ opPc' = [opPc EXCEPT ![op_id] = "finished"]
    /\ UNCHANGED opTable
    /\ ReportsUnchanged

\* The steps of the background job of one operation.
JobStep(op_id) ==
    \/ run_report_job_start(op_id)
    \/ run_report_job_ready(op_id)
    \/ \E error_message \in ErrorMessages :
          run_report_job_error(op_id, error_message)
    \/ \E ok \in BOOLEAN : run_report_job_persist(op_id, ok)

NextReports ==
    \/ \E op_id \in OpIds, ok \in BOOLEAN : create_report_init(op_id, ok)
    \/ \E op_id \in OpIds, ok \in BOOLEAN : create_report_persist(op_id, ok)
    \/ \E op_id \in OpIds : JobStep(op_id)

SpecReports == InitReports /\ [][NextReports]_vars

\* The server runs every queued background task, and _generate_report and
\* the persistence calls return or raise.
SpecReportsFair ==
    SpecReports /\ \A op_id \in OpIds : WF_vars(JobStep(op_id))

\* The request of the operation was accepted: create_report queued its job.
Accepted(op_id) ==
    opPc[op_id] \notin {"new", "persisting", "rejected"}

\* The state of the operation fits its status.
OperationWellFormed(op_id) ==
    /\ Accepted(op_id) => opTable[op_id] # Absent
    /\ opPc[op_id] = "rejected" => opTable[op_id] = Absent
    /\ opTable[op_id].status \in {"absent", "processing", "ready", "error"}
    /\ opTable[op_id].status = "processing" =>
          opTable[op_id].result = None /\ opTable[op_id].error = None
    /\ opTable[op_id].status = "ready" =>
          opTable[op_id].result # None /\ opTable[op_id].error = None
    /\ opTable[op_id].status = "error" =>
          opTable[op_id].error # None /\ opTable[op_id].result = None

\* What a step may do to the state of the operation: create it as
\* processing, remove it when create_report fails, or take it from
\* processing to ready or to error.
OperationStep(op_id) ==
    opTable'[op_id] # opTable[op_id] =>
        \/ /\ opTable[op_id] = Absent
           /\ opTable'[op_id].status = "processing"
        \/ /\ opTable[op_id].status = "processing"
           /\ opTable'[op_id] = Absent
           /\ opPc'[op_id] = "rejected"
        \/ /\ opTable[op_id].status = "processing"
           /\ opTable'[op_id].status \in {"ready", "error"}
           /\ Accepted(op_id)

\* C29: the status of an operation is processing from its creation and
\* changes once, to ready with a result or to error with a message and no
\* result, and never again; every accepted operation eventually is ready or
\* in error, whether persistence succeeds or not; an operation whose initial
\* persistence fails is removed from the table.
C29_StatusChangesOnce ==
    /\ [](\A op_id \in OpIds : OperationWellFormed(op_id))
    /\ [][\A op_id \in OpIds : OperationStep(op_id)]_vars
    /\ \A op_id \in OpIds :
          Accepted(op_id) ~> (opTable[op_id].status \in {"ready", "error"})

\* One operation has finished in error although the final persistence
\* failed, so that the collection still says processing; the initial
\* persistence of another failed and the table does not hold it.
C29_Witness ==
    \E a \in OpIds, b \in OpIds :
        /\ opPc[a] = "finished"
        /\ opTable[a].status = "error"
        /\ opTable[a].error # None
        /\ opDocs[a] = "processing"
        /\ opPc[b] = "rejected"
        /\ opDocs[b] = "absent"
        /\ opTable[b] = Absent

\* ======================================================================
\* Forecast of a report: _predict_ndvi_with_ml and the choice between its
\* result and the heuristic in _generate_report (api.py).
\* ======================================================================

\* _DEFAULT_MODEL
DEFAULT_MODEL == "eurustic"

\* What the parts _predict_ndvi_with_ml calls will do: _load_ml_model
\* returns a model, returns None or raises; _prepare_ml_features returns
\* rows, an empty frame or raises; weather_df is empty, has the columns the
\* monthly means are read from, or lacks one; model.predict returns a
\* forecast, an empty one or raises; the flowering estimate finds a date,
\* finds none or raises; the history has NDVI values or not.
Predictions ==
    [model : {"loaded", "none", "raises"},
     training : {"rows", "empty", "raises"},
     weather : {"empty", "complete", "missing_column"},
     predict : {"forecast", "empty", "raises"},
     flowering : {"found", "not_found", "raises"},
     peak : BOOLEAN]

\* The outcome of a block: a returned value or a raised exception.
Returns(value) == [raised |-> FALSE] @@ value

Raised(message) ==
    [raised |-> TRUE, model |-> "", ndvi_peak |-> None,
     ndvi_peak_at |-> None, flowering_start_date |-> None,
     flowering_confidence |-> 0, flowering_method |-> None,
     error |-> message]

\* The try block of _predict_ndvi_with_ml, statement by statement.
predict_ndvi_try(in) ==
    IF in.model = "raises" THEN Raised("model file unreadable")
    ELSE IF in.model = "none" THEN Raised("ML model not available")
    ELSE IF in.training = "raises" THEN Raised("feature preparation failed")
    ELSE IF in.training = "empty"
    THEN Raised("No valid training data available")
    ELSE IF in.weather = "missing_column" THEN Raised("'temperature_deg_c'")
    ELSE IF in.predict = "raises" THEN Raised("prediction failed")
    ELSE IF in.flowering = "raises" THEN Raised("flowering estimate failed")
    ELSE Returns(
        [model |-> "prophet_ml",
         ndvi_peak |-> IF in.predict = "forecast" THEN "peak" ELSE None,
         ndvi_peak_at |-> IF in.predict = "forecast" THEN "peak date" ELSE None,
         flowering_start_date |->
             IF in.flowering = "found" /\ in.predict = "forecast"
             THEN "flowering date" ELSE None,
         flowering_confidence |->
             IF in.flowering = "found" /\ in.predict = "forecast"
             THEN 1 ELSE 0,
         flowering_method |-> "ndvi_threshold",
         error |-> None])

\* The exception leaves the function.
predict_ndvi_except_Reraise(outcome) == outcome

\* `except Exception as exc:` of _predict_ndvi_with_ml: the fallback dict.
predict_ndvi_except(outcome) ==
    IF outcome.raised
    THEN Returns(
        [model |-> "heuristic_fallback", ndvi_peak |-> None,
         ndvi_peak_at |-> None, flowering_start_date |-> None,
         flowering_confidence |-> 0, flowering_method |-> None,
         error |-> outcome.error])
    ELSE outcome

\* _predict_ndvi_with_ml
predict_ndvi_with_ml(in) == predict_ndvi_except(predict_ndvi_try(in))

\* _generate_report, from the test of ml_results on: the forecast dict.
forecast_of(in, ml_results) ==
    IF ml_results.model = "prophet_ml"
    THEN [model |-> "prophet_ml",
          ndviPeak |-> ml_results.ndvi_peak,
          ndviPeakAt |-> ml_results.ndvi_peak_at]
    ELSE [model |-> DEFAULT_MODEL,
          ndviPeak |-> IF in.peak THEN "history peak" ELSE None,
          ndviPeakAt |-> IF in.peak THEN "history peak date" ELSE None]

PredictAlone ==
    /\ IdleProc
    /\ IdleMem
    /\ IdleScenes
    /\ IdleKeys
    /\ IdleFetch
    /\ IdleBbox
    /\ IdleIndex
    /\ IdleJobs
    /\ IdleDetect
    /\ opTable = <<>>
    /\ opDocs = <<>>
    /\ opPc = <<>>

InitPredict ==
    /\ PredictAlone
    /\ mlIn \in Predictions
    /\ mlPc = "input"
    /\ mlOut = NotPredicted
    /\ mlForecast = NoForecast

PredictUnchanged ==
    /\ UNCHANGED <<opTable, opDocs, opPc>>
    /\ UNCHANGED <<procVars, memVars, sceneVars, keyVars, fetchVars,
                   bboxVars, indexVars, jobVars, detectVars>>

\* ml_results = _predict_ndvi_with_ml(history, weather_df, forecast_year);
\* an exception that leaves the call leaves _generate_report.
Predict ==
    /\ mlPc = "input"
    /\ mlOut' = predict_ndvi_with_ml(mlIn)
    /\ mlPc' = IF mlOut'.raised THEN "failed" ELSE "predicted"
    /\ UNCHANGED <<mlIn, mlForecast>>
    /\ PredictUnchanged

\* The rest of _generate_report.
Forecast ==
    /\ mlPc = "predicted"
    /\ mlForecast' = forecast_of(mlIn, mlOut)
    /\ mlPc' = "reported"
    /\ UNCHANGED <<mlIn, mlOut>>
    /\ PredictUnchanged

NextPredict == Predict \/ Forecast

SpecPredict == InitPredict /\ [][NextPredict]_vars

\* The model is unavailable, the training data is empty or a step of the
\* prediction fails.
PredictionFails(in) ==
    \/ in.model # "loaded"
    \/ in.training # "rows"
    \/ in.weather = "missing_column"
    \/ in.predict = "raises"
    \/ in.flowering = "raises"

\* C30: _predict_ndvi_with_ml never raises; when the model is unavailable,
\* the training data is empty or the prediction fails it returns model
\* heuristic_fallback with an error message and no peak, peak date,
\* flowering date or flowering method, and otherwise model prophet_ml; the
\* report uses the heuristic forecast exactly when the model field is not
\* prophet_ml.
C30_FallbackInsteadOfException ==
    /\ mlPc # "failed"
    /\ mlPc \in {"predicted", "reported"} =>
          /\ ~mlOut.raised
          /\ IF PredictionFails(mlIn)
             THEN /\ mlOut.model = "heuristic_fallback"
                  /\ mlOut.error # None
                  /\ mlOut.ndvi_peak = None
                  /\ mlOut.ndvi_peak_at = None
                  /\ mlOut.flowering_start_date = None
                  /\ mlOut.flowering_method = None
             ELSE mlOut.model = "prophet_ml" /\ mlOut.error = None
    /\ mlPc = "reported" =>
          (mlForecast.model = DEFAULT_MODEL <=> mlOut.model # "prophet_ml")

\* The model was loaded and trained on rows, the prediction raised, and the
\* report carries the heuristic forecast with the peak of the history.
C30_Witness ==
    /\ mlPc = "reported"
    /\ mlIn.model = "loaded"
    /\ mlIn.training = "rows"
    /\ mlIn.predict = "raises"
    /\ mlOut.model = "heuristic_fallback"
    /\ mlOut.error = "prediction failed"
    /\ mlForecast.model = DEFAULT_MODEL
    /\ mlForecast.ndviPeak = "history peak"

====
